---- MODULE Spec2Model ----
(***************************************************************************)
(* Model of the profile-creation screen (app/add-profile.tsx, first        *)
(* draft, AddProfileScreen) and of the helpers it calls.                   *)
(*                                                                         *)
(* Text is modelled as a sequence of one-character strings, so that        *)
(* trimming, the regular expressions and JavaScript's Number() conversion  *)
(* are computed character by character, the way the code computes them.    *)
(*                                                                         *)
(* React state is modelled in two layers: the hook values (form, errors,   *)
(* photoUrl, ...) are what the setters have produced; `view` is the        *)
(* snapshot of them taken by the last render, which is what the event      *)
(* handlers' closures and the rendered `disabled` props read.              *)
(***************************************************************************)
EXTENDS Integers, Sequences, FiniteSets, Bags, TLC

\* ------------------------------------------------------------------ text

Digits == {"0", "1", "2", "3", "4", "5", "6", "7", "8", "9"}

LowerLetters ==
    {"a", "b", "c", "d", "e", "f", "g", "h", "i", "j", "k", "l", "m",
     "n", "o", "p", "q", "r", "s", "t", "u", "v", "w", "x", "y", "z"}

UpperLetters ==
    {"A", "B", "C", "D", "E", "F", "G", "H", "I", "J", "K", "L", "M",
     "N", "O", "P", "Q", "R", "S", "T", "U", "V", "W", "X", "Y", "Z"}

Letters == LowerLetters \cup UpperLetters

\* the characters String.prototype.trim and the regex class \s treat as blank
WhiteSpace == {" ", "\t", "\n"}

RECURSIVE TrimStart(_)
TrimStart(s) ==
    IF s # <<>> /\ Head(s) \in WhiteSpace THEN TrimStart(Tail(s)) ELSE s

RECURSIVE TrimEnd(_)
TrimEnd(s) ==
    IF s # <<>> /\ s[Len(s)] \in WhiteSpace
    THEN TrimEnd(SubSeq(s, 1, Len(s) - 1))
    ELSE s

\* String.prototype.trim
Trim(s) == TrimEnd(TrimStart(s))

\* RegExp.test for an anchored character class: /^[...]+$/
AllIn(s, chars) == Len(s) > 0 /\ \A i \in 1..Len(s) : s[i] \in chars

\* s.replace(/\s+/g, ' '): every run of blanks becomes one space
RECURSIVE CollapseSpaces(_)
CollapseSpaces(s) ==
    IF s = <<>> THEN <<>>
    ELSE IF Head(s) \in WhiteSpace
         THEN <<" ">> \o CollapseSpaces(TrimStart(s))
         ELSE <<Head(s)>> \o CollapseSpaces(Tail(s))

\* ------------------------------------------------- JavaScript Number(string)

DigitVal(c) ==
    CASE c = "0" -> 0 [] c = "1" -> 1 [] c = "2" -> 2 [] c = "3" -> 3
      [] c = "4" -> 4 [] c = "5" -> 5 [] c = "6" -> 6 [] c = "7" -> 7
      [] c = "8" -> 8 [] c = "9" -> 9 [] c \in {"a", "A"} -> 10
      [] c \in {"b", "B"} -> 11 [] c \in {"c", "C"} -> 12
      [] c \in {"d", "D"} -> 13 [] c \in {"e", "E"} -> 14
      [] c \in {"f", "F"} -> 15

HexDigits == Digits \cup {"a", "b", "c", "d", "e", "f", "A", "B", "C", "D", "E", "F"}

\* value of a digit string in the given radix
RECURSIVE RadixValue(_, _)
RadixValue(s, radix) ==
    IF s = <<>> THEN 0
    ELSE RadixValue(SubSeq(s, 1, Len(s) - 1), radix) * radix + DigitVal(s[Len(s)])

RECURSIVE Pow10(_)
Pow10(k) == IF k <= 0 THEN 1 ELSE 10 * Pow10(k - 1)

\* index of the first element of s that is in chars, 0 when there is none
RECURSIVE IndexOfAny(_, _, _)
IndexOfAny(s, chars, i) ==
    IF i > Len(s) THEN 0
    ELSE IF s[i] \in chars THEN i
    ELSE IndexOfAny(s, chars, i + 1)

NaN == [kind |-> "nan", neg |-> FALSE, m |-> 0, e |-> 0]
Infinity(neg) == [kind |-> "inf", neg |-> neg, m |-> 0, e |-> 0]
Num(neg, m, e) == [kind |-> "num", neg |-> neg, m |-> m, e |-> e]

AllDigits(s) == \A i \in 1..Len(s) : s[i] \in Digits

\* StrUnsignedDecimalLiteral: digits [. digits] [e [sign] digits] | . digits ...
\* the value is m * 10^e
UnsignedDecimal(s, neg) ==
    LET ePos  == IndexOfAny(s, {"e", "E"}, 1)
        mant  == IF ePos = 0 THEN s ELSE SubSeq(s, 1, ePos - 1)
        expo  == IF ePos = 0 THEN <<>> ELSE SubSeq(s, ePos + 1, Len(s))
        eSign == expo # <<>> /\ Head(expo) \in {"+", "-"}
        eDig  == IF eSign THEN Tail(expo) ELSE expo
        eOk   == ePos = 0 \/ (eDig # <<>> /\ AllDigits(eDig))
        eVal  == IF ePos = 0 THEN 0
                 ELSE IF eSign /\ Head(expo) = "-" THEN 0 - RadixValue(eDig, 10)
                 ELSE RadixValue(eDig, 10)
        dot   == IndexOfAny(mant, {"."}, 1)
        ip    == IF dot = 0 THEN mant ELSE SubSeq(mant, 1, dot - 1)
        fp    == IF dot = 0 THEN <<>> ELSE SubSeq(mant, dot + 1, Len(mant))
        mOk   == AllDigits(ip) /\ AllDigits(fp) /\ Len(ip) + Len(fp) > 0
    IN  IF mOk /\ eOk
        THEN Num(neg, RadixValue(ip \o fp, 10), eVal - Len(fp))
        ELSE NaN

InfinityWord == <<"I", "n", "f", "i", "n", "i", "t", "y">>

\* Number(s) for a trimmed string s (StringToNumber): the empty string is 0,
\* 0x / 0o / 0b prefixes take no sign, a decimal literal may be signed
Number(s) ==
    IF s = <<>> THEN Num(FALSE, 0, 0)
    ELSE IF Len(s) > 2 /\ s[1] = "0" /\ s[2] \in {"x", "X"}
              /\ AllIn(SubSeq(s, 3, Len(s)), HexDigits)
         THEN Num(FALSE, RadixValue(SubSeq(s, 3, Len(s)), 16), 0)
    ELSE IF Len(s) > 2 /\ s[1] = "0" /\ s[2] \in {"o", "O"}
              /\ AllIn(SubSeq(s, 3, Len(s)), {"0", "1", "2", "3", "4", "5", "6", "7"})
         THEN Num(FALSE, RadixValue(SubSeq(s, 3, Len(s)), 8), 0)
    ELSE IF Len(s) > 2 /\ s[1] = "0" /\ s[2] \in {"b", "B"}
              /\ AllIn(SubSeq(s, 3, Len(s)), {"0", "1"})
         THEN Num(FALSE, RadixValue(SubSeq(s, 3, Len(s)), 2), 0)
    ELSE LET signed == Head(s) \in {"+", "-"}
             neg    == Head(s) = "-"
             body   == IF signed THEN Tail(s) ELSE s
         IN  IF body = InfinityWord THEN Infinity(neg)
             ELSE UnsignedDecimal(body, neg)

isNaN(n) == n.kind = "nan"

\* m is a multiple of 10^k
RECURSIVE DivisibleByPow10(_, _)
DivisibleByPow10(m, k) ==
    IF k = 0 THEN TRUE
    ELSE IF m % 10 # 0 THEN FALSE
    ELSE DivisibleByPow10(m \div 10, k - 1)

\* Number.isInteger
isInteger(n) ==
    /\ n.kind = "num"
    /\ \/ n.m = 0
       \/ n.e >= 0
       \/ DivisibleByPow10(n.m, 0 - n.e)

\* m * 10^e > k for m > 0 and e >= 0, decided without forming the product
RECURSIVE Exceeds(_, _, _)
Exceeds(m, e, k) ==
    IF m > k THEN TRUE
    ELSE IF e = 0 THEN FALSE
    ELSE Exceeds(m * 10, e - 1, k)

\* the mantissa of an integer-valued number brought to exponent e >= 0
RECURSIVE Whole(_, _)
Whole(m, e) == IF e >= 0 THEN m ELSE Whole(m \div 10, e + 1)

\* n > k and n < k for an integer-valued number n and k >= 0
GreaterThan(n, k) ==
    \/ n.kind = "inf" /\ ~n.neg
    \/ /\ n.kind = "num" /\ ~n.neg /\ n.m # 0
       /\ Exceeds(Whole(n.m, n.e), IF n.e > 0 THEN n.e ELSE 0, k)
LessThan(n, k) ==
    \/ n.neg /\ (n.kind = "inf" \/ n.m # 0)
    \/ n.kind = "num" /\ (k > 0 /\ ~GreaterThan(n, k - 1))

\* the mathematical value of an integer-valued number
IntegerValue(n) ==
    LET abs == Whole(n.m, n.e) * Pow10(n.e)
    IN  IF n.neg THEN 0 - abs ELSE abs

\* ------------------------------------------------------- the screen's data

Undefined == "undefined"

FormKeys == {"name", "age", "city", "description"}
ErrorKeys == FormKeys \cup {"photo"}

\* useState<FormErrors>({}): no field carries a message
NoErrors == [k \in ErrorKeys |-> Undefined]

\* useState<FormState>({ name: '', age: '', city: '', description: '' })
EmptyForm == [k \in FormKeys |-> <<>>]

APPROVED == "approved_username_assigned"

\* useUser(): user is null, or carries id, username and status
NoUser == [id |-> "", username |-> "", status |-> ""]
Users ==
    { NoUser,
      [id |-> "u1", username |-> "bob", status |-> APPROVED],
      [id |-> "u1", username |-> "",    status |-> APPROVED],
      [id |-> "u1", username |-> "bob", status |-> "pending"] }

Platforms == {"web", "native"}

\* values the text inputs hand to onChange
NameInputs == { <<"A", "l">> }
AgeInputs == { <<"2", "0">> }
CityInputs == { <<"R", "o", "m", "e">> }
DescriptionInputs == {}
Inputs(key) ==
    CASE key = "name" -> NameInputs
      [] key = "age" -> AgeInputs
      [] key = "city" -> CityInputs
      [] key = "description" -> DescriptionInputs

\* the pictures a picker or a file dialog can deliver, with decoded dimensions
NoImage == [name |-> "", width |-> 0, height |-> 0]
Images ==
    { [name |-> "ok.jpg",   width |-> 800, height |-> 600],
      [name |-> "tiny.jpg", width |-> 50,  height |-> 50] }

\* the pictures offered in the exploration of the whole screen
ScreenImages == { [name |-> "ok.jpg", width |-> 800, height |-> 600] }

\* WebPhotoUpload.validateImage, the checks on the decoded picture: neither
\* side below the minimum, neither side above the maximum
MIN_DIMENSION == 100
MAX_DIMENSION == 4000
dimensionsValid(img) ==
    /\ ~(img.width < MIN_DIMENSION \/ img.height < MIN_DIMENSION)
    /\ ~(img.width > MAX_DIMENSION \/ img.height > MAX_DIMENSION)

\* references to a picture: a native asset uri, a browser object URL (both
\* local), and the delivery URL the upload returns
NoRef == [kind |-> "null", of |-> ""]
FileUri(img) == [kind |-> "fileUri", of |-> img.name]
ObjectUrl(img) == [kind |-> "objectUrl", of |-> img.name]
CdnUrl(img) == [kind |-> "cdn", of |-> img.name]

PickerErrors == {"Camera not available"}
UploadErrors == {"Upload failed (500). server error"}
WriteErrors == {"Missing or insufficient permissions."}

\* bounds of the exploration: acquisitions in flight at once, writes issued
\* per screen, steps taken since the last render, and the length of the age
\* strings tried
MaxAcquisitions == 2
MaxWrites == 2
MaxUnrendered == 2
MaxAgeLength == 3
MaxFiles == 2
MaxNameLength == 4

\* the characters the age strings are built from, and the strings
AgeAlphabet ==
    {"0", "1", "2", "5", "6", "7", "8", "9", " ", ".", "-", "e", "x", "a"}
AgeStrings == UNION { [1..n -> AgeAlphabet] : n \in 0..MaxAgeLength }

\* ------------------------------------------------------------------ state

VARIABLES
    user,             \* useUser()
    platform,         \* Platform.OS
    form,             \* useState<FormState>
    errors,           \* useState<FormErrors>
    photoPreview,     \* useState: local reference shown in the photo box
    photoUrl,         \* useState: URL returned by the upload
    state,            \* useState<UploadState>: [step, message]
    showImagePicker,  \* useState: the native source-choice modal is visible
    isSubmitting,     \* useState
    view,             \* what the last render captured (closures, props)
    dialogOpen,       \* web: the browser's file dialog is open
    picks,            \* bag of the acquisitions in flight (handlePick / web onChange)
    writes,           \* addDoc calls in flight
    docs,             \* documents the store holds
    returned,         \* every value uploadImageToCloudinary has returned
    issued,           \* number of addDoc calls issued
    stale,            \* steps taken since the last render
    alert,            \* title of the Alert.alert on display, "none" when dismissed
    \* the WebPhotoUpload component
    mounted,          \* the component is mounted
    props,            \* the props its parent passes: [disabled, currentImage]
    inputListeners,   \* the events its file inputs listen for
    uploadState,      \* useState<UploadState>: [step, message]
    previewUri,       \* useState
    fileDialog,       \* the browser's dialog of its file input: closed, open, dismissed
    processing,       \* the processFile calls in flight
    timers,           \* setTimeout callbacks outstanding
    objectUrls,       \* object URLs created and not released
    calls,            \* the onImageSelected and onError calls made, in order
    selected,         \* number of files its inputs have delivered
    inputs,           \* bag of the hidden <input type=file> elements it created
    \* the cloudinary module
    request,          \* the call under way: its arguments, the HTTP response
    outcome           \* what the call has returned or thrown

vars ==
    << user, platform, form, errors, photoPreview, photoUrl, state,
       showImagePicker, isSubmitting, view, dialogOpen, picks, writes, docs,
       returned, issued, stale, alert,
       mounted, props, inputListeners, uploadState, previewUri, fileDialog,
       processing, timers, objectUrls, calls, selected, inputs, request,
       outcome >>

\* the state of the cloudinary module
cloudinary == << request, outcome >>

\* no call of the cloudinary module is followed
NoRequest == request = "none" /\ outcome = "none"

\* the state of the WebPhotoUpload component
component ==
    << mounted, props, inputListeners, uploadState, previewUri, fileDialog,
       processing, timers, objectUrls, calls, selected, inputs >>

\* variant: the controls staying disabled after an error
disabledAfterError(step, submitting) == step \in {"picking", "error"} \/ submitting

\* const disabled = useMemo(() => state.step === 'picking' || isSubmitting)
disabled(step, submitting) == step = "picking" \/ submitting

\* one render: the values the handlers close over and the props in effect
Snapshot ==
    [ form |-> form, errors |-> errors, photoUrl |-> photoUrl,
      disabled |-> disabled(state.step, isSubmitting),
      showImagePicker |-> showImagePicker ]

Step(step, message) == [step |-> step, message |-> message]

\* the screen does not render a WebPhotoUpload: it has its own photo box
NotMounted ==
    /\ mounted = FALSE
    /\ props = [disabled |-> FALSE, currentImage |-> NoRef]
    /\ inputListeners = {}
    /\ uploadState = Step("idle", Undefined)
    /\ previewUri = NoRef
    /\ fileDialog = "closed"
    /\ processing = {}
    /\ timers = 0
    /\ objectUrls = 0
    /\ calls = <<>>
    /\ selected = 0
    /\ inputs = EmptyBag

Init ==
    /\ user \in Users
    /\ platform \in Platforms
    /\ form = EmptyForm
    /\ errors = NoErrors
    /\ photoPreview = NoRef
    /\ photoUrl = NoRef
    /\ state = Step("idle", Undefined)
    /\ showImagePicker = FALSE
    /\ isSubmitting = FALSE
    /\ view = Snapshot
    /\ dialogOpen = FALSE
    /\ picks = EmptyBag
    /\ writes = {}
    /\ docs = {}
    /\ returned = {}
    /\ issued = 0
    /\ stale = 0
    /\ alert = "none"
    /\ NotMounted
    /\ NoRequest

\* React commits the pending state: handlers and props now see it
Render ==
    /\ view # Snapshot
    /\ view' = Snapshot
    /\ stale' = 0
    /\ UNCHANGED << alert, user, platform, form, errors, photoPreview, photoUrl,
                    state, showImagePicker, isSubmitting, dialogOpen, picks,
                    writes, docs, returned, issued >>
    /\ UNCHANGED << component, cloudinary >>

\* a step taken before React has rendered the state the earlier steps left:
\* the render is scheduled at the first update, so only a bounded number of
\* steps get ahead of it
Unrendered ==
    /\ stale < MaxUnrendered
    /\ stale' = IF view' = Snapshot' THEN 0 ELSE stale + 1

\* a user event is delivered to the app: an alert on display takes the
\* touches until it is dismissed, and so does the camera or gallery of a
\* picker that is open
UserEvent ==
    /\ alert = "none"
    /\ \A p \in BagToSet(picks) : p.pc # "picker"

\* the controls of the screen can be touched: the native modal covers the
\* screen while it is visible, the browser's file dialog while it is open
ScreenTouchable == ~view.showImagePicker /\ ~dialogOpen

\* the user dismisses the alert on display; the screen stays (the success
\* alert's button would leave it by router.replace, which react-native-web's
\* Alert never offers)
dismissAlert ==
    /\ alert # "none"
    /\ alert' = "none"
    /\ UNCHANGED << user, platform, form, errors, photoPreview, photoUrl,
                    state, showImagePicker, isSubmitting, view, dialogOpen,
                    picks, writes, docs, returned, issued, stale >>
    /\ UNCHANGED << component, cloudinary >>

\* --------------------------------------------------------------- validate

nameError(f) ==
    LET nameValue == Trim(f.name)
    IN  IF nameValue = <<>> THEN "Name is required"
        ELSE IF Len(nameValue) < 2 THEN "Name must be at least 2 characters"
        ELSE IF Len(nameValue) > 50 THEN "Name must be less than 50 characters"
        ELSE IF ~AllIn(nameValue, Letters \cup WhiteSpace \cup {"'", "-"})
             THEN "Name can only contain letters, spaces, hyphens, and apostrophes"
        ELSE Undefined

ageError(f) ==
    LET ageValue == Trim(f.age)
        ageNum == Number(ageValue)
    IN  IF ageValue = <<>> THEN "Age is required"
        ELSE IF isNaN(ageNum) THEN "Age must be a valid number"
        ELSE IF ~isInteger(ageNum) THEN "Age must be a whole number"
        ELSE IF LessThan(ageNum, 18) THEN "Must be at least 18 years old"
        ELSE IF GreaterThan(ageNum, 95) THEN "Age must be less than 95"
        ELSE Undefined

cityError(f) ==
    LET cityValue == Trim(f.city)
    IN  IF cityValue = <<>> THEN "City is required"
        ELSE IF Len(cityValue) < 2 THEN "City must be at least 2 characters"
        ELSE IF Len(cityValue) > 100 THEN "City must be less than 100 characters"
        ELSE IF ~AllIn(cityValue, Letters \cup WhiteSpace \cup {",", ".", "-"})
             THEN "City can only contain letters, spaces, commas, periods, and hyphens"
        ELSE Undefined

descriptionError(f) ==
    IF Len(Trim(f.description)) > 300
    THEN "Description must be less than 300 characters"
    ELSE Undefined

\* variant: validate without its photo rule
photoErrorAbsent(url) == Undefined

photoError(url) ==
    IF url = NoRef THEN "Profile photo is required" ELSE Undefined

\* variant: validate stopping at the first field in error
validateFirstError(f, url) ==
    [k \in ErrorKeys |->
        CASE k = "name" -> nameError(f)
          [] k = "age" -> IF nameError(f) = Undefined THEN ageError(f) ELSE Undefined
          [] k = "city" -> IF nameError(f) = Undefined /\ ageError(f) = Undefined
                           THEN cityError(f) ELSE Undefined
          [] k = "description" -> descriptionError(f)
          [] k = "photo" -> photoError(url)]

\* the error map `next` that validate builds from the form and the photo URL
\* its closure captured
validate(f, url) ==
    [k \in ErrorKeys |->
        CASE k = "name" -> nameError(f)
          [] k = "age" -> ageError(f)
          [] k = "city" -> cityError(f)
          [] k = "description" -> descriptionError(f)
          [] k = "photo" -> photoError(url)]

\* Object.keys(next).length === 0
NoKeys(next) == \A k \in ErrorKeys : next[k] = Undefined

\* ---------------------------------------------------------------- onChange

\* variant: an edit clearing every error
onChangeClearingAll(key, value) ==
    /\ ScreenTouchable
    /\ UserEvent
    /\ form' = [form EXCEPT ![key] = value]
    /\ errors' = NoErrors
    /\ UNCHANGED << alert, user, platform, photoPreview, photoUrl, state,
                    showImagePicker, isSubmitting, view, dialogOpen, picks,
                    writes, docs, returned, issued >>
    /\ Unrendered
    /\ UNCHANGED << component, cloudinary >>

\* onChange(key, value): setForm always; the field's error is cleared when
\* the errors of the last render carried one
onChange(key, value) ==
    /\ ScreenTouchable
    /\ UserEvent
    /\ form' = [form EXCEPT ![key] = value]
    /\ errors' = IF view.errors[key] # Undefined
                 THEN [errors EXCEPT ![key] = Undefined]
                 ELSE errors
    /\ UNCHANGED << alert, user, platform, photoPreview, photoUrl, state,
                    showImagePicker, isSubmitting, view, dialogOpen, picks,
                    writes, docs, returned, issued >>
    /\ Unrendered
    /\ UNCHANGED << component, cloudinary >>

\* ------------------------------------------------ photo box, native modal

\* <Pressable testID="photo-box" onPress>: no disabled prop
pressPhotoBox ==
    /\ ScreenTouchable
    /\ UserEvent
    /\ IF platform = "web"
       THEN dialogOpen' = TRUE /\ UNCHANGED showImagePicker
       ELSE showImagePicker' = TRUE /\ UNCHANGED dialogOpen
    /\ UNCHANGED << alert, user, platform, form, errors, photoPreview, photoUrl,
                    state, isSubmitting, view, picks, writes, docs, returned,
                    issued >>
    /\ Unrendered
    /\ UNCHANGED << component, cloudinary >>

\* the modal's close button and onRequestClose
closeImagePicker ==
    /\ view.showImagePicker
    /\ UserEvent
    /\ showImagePicker' = FALSE
    /\ UNCHANGED << alert, user, platform, form, errors, photoPreview, photoUrl,
                    state, isSubmitting, view, dialogOpen, picks, writes,
                    docs, returned, issued >>
    /\ Unrendered
    /\ UNCHANGED << component, cloudinary >>

\* ------------------------------------------------------ handlePick (native)

\* one acquisition in flight: the await it is suspended at (pc) and the
\* locals it still uses
Pick(kind, source, pc, img) ==
    [kind |-> kind, source |-> source, pc |-> pc, img |-> img]

InFlight == BagToSet(picks)
Began(p) == picks (+) SetToBag({p})
Ended(p) == picks (-) SetToBag({p})
Moved(p, q) == (picks (-) SetToBag({p})) (+) SetToBag({q})

Sources == {"camera", "library"}

\* handlePick(source) up to its first await: the modal's buttons carry
\* disabled={disabled}
handlePick(source) ==
    /\ view.showImagePicker
    /\ ~view.disabled
    /\ UserEvent
    /\ BagCardinality(picks) < MaxAcquisitions
    /\ showImagePicker' = FALSE
    /\ picks' = Began(Pick("native", source, "permission", NoImage))
    /\ UNCHANGED << alert, user, platform, form, errors, photoPreview, photoUrl,
                    state, isSubmitting, view, dialogOpen, writes, docs,
                    returned, issued >>
    /\ Unrendered
    /\ UNCHANGED << component, cloudinary >>

\* the permissions requestPermissions(type) asks the system for: the one of
\* its type
requestedPermissions(type) == {type}

\* variant: requestPermissions resolving to true whatever the status
requestPermissionsAlways(os, status) == TRUE

\* requestPermissions(type): the value it resolves to, and the alert it shows
requestPermissions(os, status) == os = "web" \/ status = "granted"

permissionAlert(type) ==
    IF type = "camera" THEN "Camera Permission Required"
    ELSE "Photo Library Permission Required"

\* the permission request resolves; when granted handlePick sets `picking`
\* and launches the picker of its source
permissionResolved(p, status) ==
    /\ p \in InFlight /\ p.pc = "permission"
    /\ IF requestPermissions(platform, status)
       THEN /\ state' = Step("picking", "Opening...")
            /\ picks' = Moved(p, [p EXCEPT !.pc = "picker"])
            /\ UNCHANGED alert
       ELSE /\ picks' = Ended(p)
            /\ alert' = permissionAlert(p.source)
            /\ UNCHANGED state
    /\ UNCHANGED << user, platform, form, errors, photoPreview, photoUrl,
                    showImagePicker, isSubmitting, view, dialogOpen, writes,
                    docs, returned, issued >>
    /\ Unrendered
    /\ UNCHANGED << component, cloudinary >>

\* what launchCameraAsync / launchImageLibraryAsync can settle with
PickerResults(images) ==
    {[t |-> "canceled", img |-> NoImage, message |-> Undefined],
     [t |-> "noAsset", img |-> NoImage, message |-> Undefined]}
    \cup {[t |-> "asset", img |-> i, message |-> Undefined] : i \in images}
    \cup {[t |-> "rejected", img |-> NoImage, message |-> m] : m \in PickerErrors}

\* the picker settles: cancel, no asset, a rejection, or an asset whose
\* upload is started at once
pickerResolved(p, r) ==
    /\ p \in InFlight /\ p.pc = "picker"
    /\ CASE r.t = "canceled" ->
              /\ state' = Step("idle", Undefined)
              /\ picks' = Ended(p)
              /\ UNCHANGED << photoPreview, errors >>
         [] r.t = "noAsset" ->
              /\ state' = Step("error", "No image selected")
              /\ picks' = Ended(p)
              /\ UNCHANGED << photoPreview, errors >>
         [] r.t = "rejected" ->
              /\ state' = Step("error", r.message)
              /\ picks' = Ended(p)
              /\ UNCHANGED << photoPreview, errors >>
         [] r.t = "asset" ->
              /\ photoPreview' = FileUri(r.img)
              /\ errors' = [errors EXCEPT !["photo"] = Undefined]
              /\ state' = Step("uploading", "Uploading photo...")
              /\ picks' = Moved(p, Pick("native", "", "upload", r.img))
    /\ UNCHANGED << alert, user, platform, form, photoUrl, showImagePicker,
                    isSubmitting, view, dialogOpen, writes, docs, returned,
                    issued >>
    /\ Unrendered
    /\ UNCHANGED << component, cloudinary >>

\* what uploadImageToCloudinary can settle with for a picture
UploadResults(img) ==
    {[ok |-> TRUE, url |-> CdnUrl(img), message |-> Undefined]}
    \cup {[ok |-> FALSE, url |-> NoRef, message |-> m] : m \in UploadErrors}

\* handlePick after `await uploadImageToCloudinary(asset.uri)`
handlePickUploaded(p, r) ==
    /\ p \in InFlight /\ p.pc = "upload" /\ p.kind = "native"
    /\ picks' = Ended(p)
    /\ IF r.ok
       THEN /\ photoUrl' = r.url
            /\ state' = Step("idle", "Photo uploaded")
            /\ returned' = returned \cup {r.url}
       ELSE /\ state' = Step("error", r.message)
            /\ UNCHANGED << photoUrl, returned >>
    /\ UNCHANGED << alert, user, platform, form, errors, photoPreview,
                    showImagePicker, isSubmitting, view, dialogOpen, writes,
                    docs, issued >>
    /\ Unrendered
    /\ UNCHANGED << component, cloudinary >>

\* ------------------------------------------- the web file input's onChange

\* the browser's file dialog is dismissed: no change event is delivered
fileDialogDismissed ==
    /\ dialogOpen
    /\ dialogOpen' = FALSE
    /\ UNCHANGED << alert, user, platform, form, errors, photoPreview, photoUrl,
                    state, showImagePicker, isSubmitting, view, picks, writes,
                    docs, returned, issued >>
    /\ Unrendered
    /\ UNCHANGED << component, cloudinary >>

\* onChange of the hidden <input type="file"> up to its await; f = NoImage
\* is an empty file list
fileInputChanged(f) ==
    /\ dialogOpen
    /\ BagCardinality(picks) < MaxAcquisitions
    /\ dialogOpen' = FALSE
    /\ IF f = NoImage
       THEN UNCHANGED << photoPreview, state, picks >>
       ELSE /\ photoPreview' = ObjectUrl(f)
            /\ state' = Step("uploading", "Uploading photo...")
            /\ picks' = Began(Pick("web", "", "upload", f))
    /\ UNCHANGED << alert, user, platform, form, errors, photoUrl, showImagePicker,
                    isSubmitting, view, writes, docs, returned, issued >>
    /\ Unrendered
    /\ UNCHANGED << component, cloudinary >>

\* onChange after `await uploadImageToCloudinary(f)`
fileInputUploaded(p, r) ==
    /\ p \in InFlight /\ p.pc = "upload" /\ p.kind = "web"
    /\ picks' = Ended(p)
    /\ IF r.ok
       THEN /\ photoUrl' = r.url
            /\ errors' = [errors EXCEPT !["photo"] = Undefined]
            /\ state' = Step("idle", "Photo uploaded")
            /\ returned' = returned \cup {r.url}
       ELSE /\ state' = Step("error", r.message)
            /\ UNCHANGED << photoUrl, errors, returned >>
    /\ UNCHANGED << alert, user, platform, form, photoPreview, showImagePicker,
                    isSubmitting, view, dialogOpen, writes, docs,
                    issued >>
    /\ Unrendered
    /\ UNCHANGED << component, cloudinary >>

\* ---------------------------------------------------------------- onSubmit

\* variant: the verification check looking at the status alone
UnverifiedStatus(u) == u.status # APPROVED

\* !user.username || user.status !== 'approved_username_assigned'
Unverified(u) == u.username = "" \/ u.status # APPROVED

\* sanitizedData and the fixed fields of the document handed to addDoc
\* variant: the document with its text fields trimmed and no more
DocumentTrimmed(u, f, url) ==
    [ name |-> Trim(f.name),
      age |-> IntegerValue(Number(Trim(f.age))),
      city |-> Trim(f.city),
      description |-> Trim(f.description),
      profileImageUrl |-> url,
      uploaderUserId |-> u.id,
      uploaderUsername |-> u.username,
      greenFlags |-> 0,
      redFlags |-> 0,
      commentCount |-> 0,
      approvalStatus |-> "pending" ]

Document(u, f, url) ==
    [ name |-> CollapseSpaces(Trim(f.name)),
      age |-> IntegerValue(Number(Trim(f.age))),
      city |-> CollapseSpaces(Trim(f.city)),
      description |-> CollapseSpaces(Trim(f.description)),
      profileImageUrl |-> url,
      uploaderUserId |-> u.id,
      uploaderUsername |-> u.username,
      greenFlags |-> 0,
      redFlags |-> 0,
      commentCount |-> 0,
      approvalStatus |-> "pending" ]

\* variant: onSubmit with neither the photo rule nor the double-check
submitOutcomeWithoutPhoto(u, f, url) ==
    IF u.id = "" THEN "login"
    ELSE IF Unverified(u) THEN "verification"
    ELSE IF \E k \in FormKeys : validate(f, url)[k] # Undefined THEN "invalid"
    ELSE "write"

\* the precondition at which onSubmit returns, "write" when it reaches addDoc
submitOutcome(u, f, url) ==
    IF u.id = "" THEN "login"
    ELSE IF Unverified(u) THEN "verification"
    ELSE IF ~NoKeys(validate(f, url)) THEN "invalid"
    ELSE IF url = NoRef THEN "photo"
    ELSE "write"

\* the alert onSubmit raises, the one on display when it raises none
submitAlert(out, shown) ==
    CASE out = "login" -> "Login Required"
      [] out = "verification" -> "Verification Required"
      [] OTHER -> shown

\* what onSubmit leaves in `errors`: untouched before validate runs, validate's
\* map after it, with the photo message added by the double-check
submitErrors(out, old, f, url) ==
    CASE out \in {"login", "verification"} -> old
      [] out = "photo" -> [validate(f, url) EXCEPT !["photo"] = "Profile photo is required"]
      [] OTHER -> validate(f, url)

\* onSubmit up to `await addDoc(...)`, with the form and the photo URL its
\* closure captured at the last render
onSubmit ==
    /\ ScreenTouchable
    /\ ~view.disabled
    /\ UserEvent
    /\ issued < MaxWrites
    /\ LET out == submitOutcome(user, view.form, view.photoUrl)
       IN  /\ errors' = submitErrors(out, errors, view.form, view.photoUrl)
           /\ IF out = "write"
              THEN /\ isSubmitting' = TRUE
                   /\ state' = Step("uploading", "Creating profile...")
                   /\ writes' = writes \cup
                         {[ n |-> issued + 1,
                            after |-> {w.n : w \in writes},
                            doc |-> Document(user, view.form, view.photoUrl) ]}
                   /\ issued' = issued + 1
              ELSE UNCHANGED << isSubmitting, state, writes, issued >>
           /\ alert' = submitAlert(out, alert)
    /\ UNCHANGED << user, platform, form, photoPreview, photoUrl,
                    showImagePicker, view, dialogOpen, picks, docs, returned >>
    /\ Unrendered
    /\ UNCHANGED << component, cloudinary >>

WriteResults ==
    {[ok |-> TRUE, message |-> Undefined]}
    \cup {[ok |-> FALSE, message |-> m] : m \in WriteErrors}

\* onSubmit after `await addDoc(...)`: success or catch, then finally
addDocSettled(w, r) ==
    /\ w \in writes
    /\ writes' = writes \ {w}
    /\ IF r.ok
       THEN /\ docs' = docs \cup {w}
            /\ state' = Step("success", "Profile created")
            /\ alert' = "Success"
       ELSE /\ state' = Step("error", r.message)
            /\ UNCHANGED << docs, alert >>
    /\ isSubmitting' = FALSE
    /\ UNCHANGED << user, platform, form, errors, photoPreview, photoUrl,
                    showImagePicker, view, dialogOpen, picks, returned,
                    issued >>
    /\ Unrendered
    /\ UNCHANGED << component, cloudinary >>

\* ------------------------------------------------------------ specification

\* rendering, and the user closing an alert
Display ==
    \/ Render
    \/ dismissAlert

\* the form's fields and the submission
Submitting ==
    \/ \E key \in FormKeys : \E value \in Inputs(key) : onChange(key, value)
    \/ onSubmit
    \/ \E w \in writes : \E r \in WriteResults : addDocSettled(w, r)

\* the photo acquisition, apart from the steps that deliver a picture
Acquiring ==
    \/ pressPhotoBox
    \/ closeImagePicker
    \/ \E source \in Sources : handlePick(source)
    \/ \E p \in InFlight : \E status \in {"granted", "denied"} : permissionResolved(p, status)
    \/ \E p \in InFlight : \E r \in UploadResults(p.img) : handlePickUploaded(p, r)
    \/ fileDialogDismissed
    \/ \E p \in InFlight : \E r \in UploadResults(p.img) : fileInputUploaded(p, r)

\* the steps at which a picker or the file dialog delivers one of `images`
Delivered(images) ==
    \/ \E p \in InFlight : \E r \in PickerResults(images) : pickerResolved(p, r)
    \/ \E f \in images \cup {NoImage} : fileInputChanged(f)

\* the whole screen, for every user and platform
Next == Display \/ Submitting \/ Acquiring \/ Delivered(ScreenImages)

Spec == Init /\ [][Next]_vars

\* the photo acquisition on its own, when the pictures at hand include one
\* whose sides are out of range
NextImages == Display \/ Acquiring \/ Delivered(Images)

SpecImages == Init /\ [][NextImages]_vars

\* the screen of a verified user who has entered a name and a city and
\* uploaded a photo, with each of the age strings in the age field
InitAge ==
    /\ user \in Users /\ user.id # "" /\ ~Unverified(user)
    /\ platform \in Platforms
    /\ \E name \in NameInputs : \E age \in AgeStrings : \E city \in CityInputs :
          form = [name |-> name, age |-> age, city |-> city, description |-> <<>>]
    /\ errors = NoErrors
    /\ \E img \in ScreenImages :
          /\ photoPreview = IF platform = "web" THEN ObjectUrl(img) ELSE FileUri(img)
          /\ photoUrl = CdnUrl(img)
          /\ returned = {CdnUrl(img)}
    /\ state = Step("idle", "Photo uploaded")
    /\ showImagePicker = FALSE
    /\ isSubmitting = FALSE
    /\ view = Snapshot
    /\ dialogOpen = FALSE
    /\ picks = EmptyBag
    /\ writes = {}
    /\ docs = {}
    /\ issued = 0
    /\ stale = 0
    /\ alert = "none"
    /\ NotMounted
    /\ NoRequest

NextAge ==
    \/ Display
    \/ onSubmit
    \/ \E w \in writes : \E r \in WriteResults : addDocSettled(w, r)

SpecAge == InitAge /\ [][NextAge]_vars


\* the screen of a verified user who has uploaded a photo, with a form whose
\* text fields hold letters, blanks and runs of blanks
InitText ==
    /\ user \in Users /\ user.id # "" /\ ~Unverified(user)
    /\ platform \in Platforms
    /\ form \in
          [ name : UNION { [1..n -> {"a", " ", "\t"}] : n \in 0..MaxNameLength },
            age : {<<"1", "8">>, <<"9", "5">>},
            city : {<<"R", "o", "m", "e">>, <<" ", "L", "e", " ", " ", "\n", "M", "a", "n", "s", "\t">>},
            description : {<<>>, <<"t", "a", "l", "l", "\n", "\n", "s", "h", "y", " ">>} ]
    /\ errors = NoErrors
    /\ \E img \in ScreenImages :
          /\ photoPreview = IF platform = "web" THEN ObjectUrl(img) ELSE FileUri(img)
          /\ photoUrl = CdnUrl(img)
          /\ returned = {CdnUrl(img)}
    /\ state = Step("idle", "Photo uploaded")
    /\ showImagePicker = FALSE
    /\ isSubmitting = FALSE
    /\ view = Snapshot
    /\ dialogOpen = FALSE
    /\ picks = EmptyBag
    /\ writes = {}
    /\ docs = {}
    /\ issued = 0
    /\ stale = 0
    /\ alert = "none"
    /\ NotMounted
    /\ NoRequest

SpecText == InitText /\ [][NextAge]_vars

\* the screen of a verified user, with a form in which each field is empty,
\* too short, too long, ill-formed or well-formed, with and without a photo
InitForms ==
    /\ user \in Users /\ user.id # "" /\ ~Unverified(user)
    /\ platform \in Platforms
    /\ form \in
          [ name : {<<>>, <<" ", "A", " ">>, <<"A", "l">>, <<"A", "1">>, [i \in 1..51 |-> "a"]},
            age : {<<>>, <<"a", "b">>, <<"7">>, <<"1", "7">>, <<"1", "8">>, <<"9", "5">>, <<"9", "6">>},
            city : {<<>>, <<"R">>, <<"R", "o", "m", "e">>, <<"R", "o", "m", "e", "!">>,
                    [i \in 1..101 |-> "a"]},
            description : {<<>>, <<"t", "a", "l", "l">>, [i \in 1..301 |-> "a"]} ]
    /\ errors = NoErrors
    /\ \E img \in ScreenImages : returned = {CdnUrl(img)} /\ photoUrl \in {NoRef, CdnUrl(img)}
    /\ photoPreview = NoRef
    /\ state = Step("idle", Undefined)
    /\ showImagePicker = FALSE
    /\ isSubmitting = FALSE
    /\ view = Snapshot
    /\ dialogOpen = FALSE
    /\ picks = EmptyBag
    /\ writes = {}
    /\ docs = {}
    /\ issued = 0
    /\ stale = 0
    /\ alert = "none"
    /\ NotMounted
    /\ NoRequest

SpecForms == InitForms /\ [][NextAge]_vars

\* the forms of InitForms, edited and submitted
SpecEdit == InitForms /\ [][Display \/ Submitting]_vars

\* two pictures that pass every check, to tell the previewed picture from
\* the uploaded one
PreviewImages ==
    { [name |-> "ok.jpg", width |-> 800, height |-> 600],
      [name |-> "new.jpg", width |-> 640, height |-> 480] }

\* the screen of a verified user who has filled the text fields in and has
\* no photo yet
InitPhotos ==
    /\ user \in Users /\ user.id # "" /\ ~Unverified(user)
    /\ platform \in Platforms
    /\ \E name \in NameInputs : \E age \in AgeInputs : \E city \in CityInputs :
          form = [name |-> name, age |-> age, city |-> city, description |-> <<>>]
    /\ errors = NoErrors
    /\ photoPreview = NoRef
    /\ photoUrl = NoRef
    /\ state = Step("idle", Undefined)
    /\ showImagePicker = FALSE
    /\ isSubmitting = FALSE
    /\ view = Snapshot
    /\ dialogOpen = FALSE
    /\ picks = EmptyBag
    /\ writes = {}
    /\ docs = {}
    /\ returned = {}
    /\ issued = 0
    /\ stale = 0
    /\ alert = "none"
    /\ NotMounted
    /\ NoRequest

\* acquisitions of the two pictures, and submissions
SpecPhotos == InitPhotos /\ [][NextAge \/ Acquiring \/ Delivered(PreviewImages)]_vars

\* --------------------------------------------------------- WebPhotoUpload

MAX_SIZE_BYTES == 5000000

\* SUPPORTED_FORMATS, each MIME type as its characters
SUPPORTED_FORMATS ==
    { <<"i","m","a","g","e","/","j","p","e","g">>,
      <<"i","m","a","g","e","/","j","p","g">>,
      <<"i","m","a","g","e","/","p","n","g">>,
      <<"i","m","a","g","e","/","w","e","b","p">> }

\* String.prototype.toLowerCase
toLowerCase(s) ==
    LET upper == <<"A","B","C","D","E","F","G","H","I","J","K","L","M",
                   "N","O","P","Q","R","S","T","U","V","W","X","Y","Z">>
        lower == <<"a","b","c","d","e","f","g","h","i","j","k","l","m",
                   "n","o","p","q","r","s","t","u","v","w","x","y","z">>
    IN  [ i \in 1..Len(s) |->
            IF \E k \in 1..26 : upper[k] = s[i]
            THEN lower[CHOOSE k \in 1..26 : upper[k] = s[i]]
            ELSE s[i] ]

\* the files a dialog can deliver: byte sizes and sides around each limit,
\* the types a browser reports, and files that do not decode as an image
\* (the Image element fires onerror and has no sides)
Files ==
    LET sizes == {999, 1000, 5000000, 5000001}
        types == SUPPORTED_FORMATS \cup
                 { <<"i","m","a","g","e","/","g","i","f">>,
                   <<"I","M","A","G","E","/","P","N","G">>,
                   <<>> }
        sides == {99, 100, 4000, 4001}
    IN  [name : {"photo"}, size : sizes, type : types, width : sides, height : sides,
         decodable : {TRUE}]
        \cup [name : {"photo"}, size : sizes, type : types, width : {0}, height : {0},
              decodable : {FALSE}]

\* the files offered in the exploration of the whole component: one that
\* passes every check, one too narrow, one that does not decode
UploadFiles ==
    { f \in Files :
        /\ f.size = 1000 /\ f.type = <<"i","m","a","g","e","/","p","n","g">>
        /\ f.height \in {0, 100} /\ f.width \in {0, 99, 100} }

\* variant: validateImage looking at the type before the byte size
validateImageTypeFirst(file) ==
    LET Invalid(error) == [isValid |-> FALSE, error |-> error] IN
    IF toLowerCase(file.type) \notin SUPPORTED_FORMATS
    THEN Invalid("Unsupported format. Please use JPEG, PNG, or WebP.")
    ELSE IF file.size > MAX_SIZE_BYTES
    THEN Invalid("Image too large. Maximum size is 5MB.")
    ELSE IF file.size < 1000
    THEN Invalid("Image too small. Please upload a valid photo.")
    ELSE IF ~file.decodable
    THEN Invalid("Invalid image file. Please try another photo.")
    ELSE IF file.width < 100 \/ file.height < 100
    THEN Invalid("Image too small. Minimum size is 100x100 pixels.")
    ELSE IF file.width > 4000 \/ file.height > 4000
    THEN Invalid("Image too large. Maximum size is 4000x4000 pixels.")
    ELSE [isValid |-> TRUE, error |-> Undefined]

\* variant: validateImage resolving without a message
validateImageNoMessage(file) ==
    [isValid |-> validateImageTypeFirst(file).isValid, error |-> Undefined]

\* variant: validateImage turning away the files that are at a limit
validateImageAtLimits(file) ==
    LET r == validateImageTypeFirst(file) IN
    IF \/ file.size \in {1000, MAX_SIZE_BYTES}
       \/ {file.width, file.height} \cap {100, 4000} # {}
    THEN [isValid |-> FALSE, error |-> "Invalid image"]
    ELSE r

\* validateImage: what its promise resolves with; the message of the first
\* check is built with Math.round(MAX_SIZE_BYTES / 1024 / 1024)
validateImage(file) ==
    LET Invalid(error) == [isValid |-> FALSE, error |-> error] IN
    IF file.size > MAX_SIZE_BYTES
    THEN Invalid("Image too large. Maximum size is "
                 \o ToString((2 * MAX_SIZE_BYTES + 1024 * 1024) \div (2 * 1024 * 1024))
                 \o "MB.")
    ELSE IF file.size < 1000
    THEN Invalid("Image too small. Please upload a valid photo.")
    ELSE IF toLowerCase(file.type) \notin SUPPORTED_FORMATS
    THEN Invalid("Unsupported format. Please use JPEG, PNG, or WebP.")
    ELSE IF ~file.decodable
    THEN Invalid("Invalid image file. Please try another photo.")
    ELSE IF file.width < 100 \/ file.height < 100
    THEN Invalid("Image too small. Minimum size is 100x100 pixels.")
    ELSE IF file.width > 4000 \/ file.height > 4000
    THEN Invalid("Image too large. Maximum size is 4000x4000 pixels.")
    ELSE [isValid |-> TRUE, error |-> Undefined]

\* a call of a callback prop: onError(error), onImageSelected(base64, uri)
Call(fn, error, uri) == [fn |-> fn, error |-> error, uri |-> uri]

\* the variables of the screen, which the component leaves alone
screen ==
    << user, platform, form, errors, photoPreview, photoUrl, state,
       showImagePicker, isSubmitting, view, dialogOpen, picks, writes, docs,
       returned, issued, stale, alert >>

\* a mounted component on either platform, in either draft of its inputs
\* (WebPhotoUpload.tsx listens for change and cancel, part_002 for change
\* only), whatever its parent passes; the screen around it is at rest
InitUpload ==
    /\ user = NoUser
    /\ platform \in Platforms
    /\ form = EmptyForm
    /\ errors = NoErrors
    /\ photoPreview = NoRef
    /\ photoUrl = NoRef
    /\ state = Step("idle", Undefined)
    /\ showImagePicker = FALSE
    /\ isSubmitting = FALSE
    /\ view = Snapshot
    /\ dialogOpen = FALSE
    /\ picks = EmptyBag
    /\ writes = {}
    /\ docs = {}
    /\ returned = {}
    /\ issued = 0
    /\ stale = 0
    /\ alert = "none"
    /\ mounted = TRUE
    /\ props \in [disabled : BOOLEAN, currentImage : {NoRef} \cup {CdnUrl(img) : img \in ScreenImages}]
    /\ inputListeners \in {{"change", "cancel"}, {"change"}}
    /\ uploadState = Step("idle", Undefined)
    /\ previewUri = props.currentImage
    /\ fileDialog = "closed"
    /\ processing = {}
    /\ timers = 0
    /\ objectUrls = 0
    /\ calls = <<>>
    /\ selected = 0
    /\ inputs = EmptyBag
    /\ NoRequest

\* the input openCamera / openGallery creates, appends to document.body,
\* keeps in its ref and clicks: `removals` and `blurs` count its 1000 ms and
\* 500 ms timers outstanding, `dialog` says the browser's dialog is its own,
\* `used` that its change or cancel event has been handled, `changed` that
\* it was the change event
HiddenInput(kind) ==
    [kind |-> kind, attached |-> TRUE, ref |-> TRUE, dialog |-> TRUE,
     used |-> FALSE, changed |-> FALSE, removals |-> 0, blurs |-> 0]

\* an input that was taken out of the document and that neither a ref nor
\* a blur timer refers to is forgotten: its removal timers find it gone
\* from the document and do nothing
Kept(bag) ==
    LET gone(i) == ~i.attached /\ ~i.ref /\ ~i.dialog /\ i.blurs = 0
    IN  bag (-) [i \in {g \in BagToSet(bag) : gone(g)} |-> CopiesIn(i, bag)]

\* the inputs of WebPhotoUpload.tsx live per invocation on web; part_002
\* keeps the two inputs of its mount effect, which are not followed here
PerInvocation == platform = "web" /\ "cancel" \in inputListeners

MaxInputs == 3

\* the removal timers of one input that are followed
MaxRemovals == 2

\* variant: the input of the earlier invocation left in the document
NotDetached(kind) == inputs

\* openCamera / openGallery take the input their ref holds out of the
\* document and clear the ref
Detached(kind) ==
    BagOfAll(LAMBDA i : IF i.kind = kind /\ i.ref
                        THEN [i EXCEPT !.attached = FALSE, !.ref = FALSE]
                        ELSE i, inputs)

\* the input whose dialog it was has had its event: handleChange and
\* handleCancel start its 1000 ms removal timer
Handled(event) ==
    BagOfAll(LAMBDA i : IF i.dialog
                        THEN [i EXCEPT !.dialog = FALSE, !.used = TRUE,
                                       !.changed = (event = "change"),
                                       !.removals = @ + 1]
                        ELSE i, inputs)

\* a press reaches the component: the browser's file dialog is modal, and the
\* cancel event of a dismissed dialog is dispatched before the next press
Pressable ==
    /\ mounted
    /\ fileDialog # "open"
    /\ ~(fileDialog = "dismissed" /\ "cancel" \in inputListeners)

\* the Camera button is pressed: it is rendered while there is no preview,
\* enabled unless `disabled` or isProcessing; the file dialog opens on web
openCamera ==
    /\ Pressable /\ previewUri = NoRef
    /\ ~(props.disabled \/ uploadState.step \in {"picking", "validating"})
    /\ uploadState' = Step("picking", "Opening camera...")
    /\ fileDialog' = IF platform = "web" THEN "open" ELSE fileDialog
    /\ UNCHANGED << mounted, props, inputListeners, previewUri, processing,
                    timers, objectUrls, calls, selected >>
    /\ IF PerInvocation
       THEN /\ BagCardinality(inputs) < MaxInputs
            /\ inputs' = Kept(Detached("camera") (+) SetToBag({HiddenInput("camera")}))
       ELSE UNCHANGED inputs
    /\ UNCHANGED << screen, cloudinary >>

\* the Gallery button is pressed
openGallery ==
    /\ Pressable /\ previewUri = NoRef
    /\ ~(props.disabled \/ uploadState.step \in {"picking", "validating"})
    /\ uploadState' = Step("picking", "Opening gallery...")
    /\ fileDialog' = IF platform = "web" THEN "open" ELSE fileDialog
    /\ UNCHANGED << mounted, props, inputListeners, previewUri, processing,
                    timers, objectUrls, calls, selected >>
    /\ IF PerInvocation
       THEN /\ BagCardinality(inputs) < MaxInputs
            /\ inputs' = Kept(Detached("gallery") (+) SetToBag({HiddenInput("gallery")}))
       ELSE UNCHANGED inputs
    /\ UNCHANGED << screen, cloudinary >>

\* the user closes the file dialog without choosing a file: the browser
\* fires no change event
dialogDismissed ==
    /\ fileDialog = "open"
    /\ fileDialog' = "dismissed"
    /\ UNCHANGED << mounted, props, inputListeners, uploadState, previewUri,
                    processing, timers, objectUrls, calls, selected >>
    /\ UNCHANGED << screen, cloudinary, inputs >>

\* the browser fires the cancel event of the dismissed dialog at an input
\* that listens for it: handleCancel
handleCancel ==
    /\ fileDialog = "dismissed" /\ "cancel" \in inputListeners
    /\ uploadState' = Step("idle", Undefined)
    /\ fileDialog' = "closed"
    /\ UNCHANGED << mounted, props, inputListeners, previewUri, processing,
                    timers, objectUrls, calls, selected >>
    /\ inputs' = Handled("cancel")
    /\ UNCHANGED << screen, cloudinary >>

\* the user chooses `file` in the dialog and the change event fires:
\* handleFileSelect / handleChange calls processFile, which sets `validating`
\* and awaits validateImage
handleFileSelect(file) ==
    /\ fileDialog = "open" /\ "change" \in inputListeners
    /\ selected < MaxFiles
    /\ selected' = selected + 1
    /\ fileDialog' = "closed"
    /\ uploadState' = Step("validating", "Validating image...")
    /\ processing' = processing \cup {[file |-> file, pc |-> "validating", id |-> selected']}
    /\ UNCHANGED << mounted, props, inputListeners, previewUri, timers,
                    objectUrls, calls >>
    /\ inputs' = Handled("change")
    /\ UNCHANGED << screen, cloudinary >>

\* validateImage resolves; a file that passed the size and type checks was
\* given an object URL for the Image element. processFile goes on: an
\* invalid file sets `error` and is reported, a valid one is read
validated(p) ==
    /\ p \in processing /\ p.pc = "validating"
    /\ LET validation == validateImage(p.file) IN
        /\ objectUrls' = IF \/ validation.isValid
                            \/ validation.error \in
                                 { "Invalid image file. Please try another photo.",
                                   "Image too small. Minimum size is 100x100 pixels.",
                                   "Image too large. Maximum size is 4000x4000 pixels." }
                         THEN objectUrls + 1
                         ELSE objectUrls
        /\ IF ~validation.isValid
           THEN /\ uploadState' = Step("error", validation.error)
                /\ calls' = Append(calls, Call("onError",
                                 IF validation.error = Undefined
                                 THEN "Invalid image"
                                 ELSE validation.error, NoRef))
                /\ processing' = processing \ {p}
           ELSE /\ processing' = (processing \ {p}) \cup {[p EXCEPT !.pc = "reading"]}
                /\ UNCHANGED << uploadState, calls >>
    /\ UNCHANGED << mounted, props, inputListeners, previewUri, fileDialog,
                    timers, selected >>
    /\ UNCHANGED << screen, cloudinary, inputs >>

\* the FileReader settles: onload makes the preview's object URL, sets
\* `success`, hands the picture to the parent and starts the 2 s timer;
\* onerror sets `error` and reports it; onload with an empty result does
\* nothing
readerSettled(p, event) ==
    /\ p \in processing /\ p.pc = "reading"
    /\ processing' = processing \ {p}
    /\ IF event = "load"
       THEN /\ objectUrls' = objectUrls + 1
            /\ previewUri' = ObjectUrl(p.file)
            /\ uploadState' = Step("success", "Image ready")
            /\ calls' = Append(calls, Call("onImageSelected", Undefined, ObjectUrl(p.file)))
            /\ timers' = timers + 1
       ELSE IF event = "error"
       THEN /\ uploadState' = Step("error", "Failed to read image file")
            /\ calls' = Append(calls, Call("onError", "Failed to read image file", NoRef))
            /\ UNCHANGED << objectUrls, previewUri, timers >>
       ELSE UNCHANGED << uploadState, calls, objectUrls, previewUri, timers >>
    /\ UNCHANGED << mounted, props, inputListeners, fileDialog, selected >>
    /\ UNCHANGED << screen, cloudinary, inputs >>

\* a 2 s timer fires
timerFired ==
    /\ timers > 0
    /\ timers' = timers - 1
    /\ uploadState' = Step("idle", Undefined)
    /\ UNCHANGED << mounted, props, inputListeners, previewUri, fileDialog,
                    processing, objectUrls, calls, selected >>
    /\ UNCHANGED << screen, cloudinary, inputs >>

\* the clear button, rendered over a preview, is pressed
clearImage ==
    /\ Pressable /\ previewUri # NoRef
    /\ previewUri' = NoRef
    /\ uploadState' = Step("idle", Undefined)
    /\ calls' = Append(calls, Call("onImageSelected", Undefined, NoRef))
    /\ UNCHANGED << mounted, props, inputListeners, fileDialog, processing,
                    timers, objectUrls, selected >>
    /\ UNCHANGED << screen, cloudinary, inputs >>

\* the component unmounts: the cleanup of WebPhotoUpload.tsx takes its inputs
\* out of the document, their listeners attached; the cleanup of part_002
\* removes the change listeners. Neither clears a timer or releases a URL
unmount ==
    /\ mounted
    /\ mounted' = FALSE
    /\ inputListeners' = IF "cancel" \in inputListeners THEN inputListeners ELSE {}
    /\ inputs' = BagOfAll(LAMBDA i : IF i.ref THEN [i EXCEPT !.attached = FALSE]
                                     ELSE i, inputs)
    /\ UNCHANGED << props, uploadState, previewUri, fileDialog, processing,
                    timers, objectUrls, calls, selected >>
    /\ UNCHANGED << screen, cloudinary >>

\* a 1000 ms timer of handleChange or handleCancel fires: the input leaves
\* the document if it is still there
inputRemoved(kind) ==
    /\ \E i \in BagToSet(inputs) :
          /\ i.kind = kind /\ i.removals > 0
          /\ inputs' = Kept((inputs (-) SetToBag({i})) (+)
                            SetToBag({[i EXCEPT !.removals = @ - 1,
                                                !.attached = FALSE]}))
    /\ UNCHANGED << mounted, props, inputListeners, uploadState, previewUri,
                    fileDialog, processing, timers, objectUrls, calls, selected >>
    /\ UNCHANGED << screen, cloudinary >>

\* what the browser and the timers do on their own
Settled ==
    \/ handleCancel
    \/ \E kind \in {"camera", "gallery"} : inputRemoved(kind)
    \/ \E p \in processing : validated(p)
    \/ \E p \in processing : \E event \in {"load", "error"} : readerSettled(p, event)
    \/ timerFired

\* the component, with the files of the whole exploration
NextUpload ==
    \/ openCamera
    \/ openGallery
    \/ dialogDismissed
    \/ \E file \in UploadFiles : handleFileSelect(file)
    \/ clearImage
    \/ unmount
    \/ Settled

\* events and timers that are due are delivered, the removal timer of an
\* input whatever else is going on
SpecUpload ==
    /\ InitUpload /\ [][NextUpload]_vars /\ WF_vars(Settled)
    /\ WF_vars(inputRemoved("camera")) /\ WF_vars(inputRemoved("gallery"))

\* a hidden input of WebPhotoUpload.tsx loses the focus that the animation
\* frame of its invocation gave it: its blur listener starts a 500 ms timer
\* (whether a browser focuses an input that is not displayed, and so whether
\* the event is dispatched at all, is the browser's choice)
inputBlurred(i) ==
    /\ i \in BagToSet(inputs) /\ i.attached /\ i.blurs = 0
    /\ i.removals < MaxRemovals
    /\ inputs' = (inputs (-) SetToBag({i})) (+) SetToBag({[i EXCEPT !.blurs = 1]})
    /\ UNCHANGED << mounted, props, inputListeners, uploadState, previewUri,
                    fileDialog, processing, timers, objectUrls, calls, selected >>
    /\ UNCHANGED << screen, cloudinary >>

\* the files the input holds when a timer runs: handleFileSelect has emptied
\* its value before it returned, and no file was in it before the change
\* event
inputFiles(i) == 0

\* the 500 ms timer of a blur fires: an input that holds no file is taken
\* for cancelled, and handleCancel sets idle and starts a removal timer
blurTimerFired(i) ==
    /\ i \in BagToSet(inputs) /\ i.blurs > 0
    /\ IF inputFiles(i) = 0
       THEN /\ uploadState' = Step("idle", Undefined)
            /\ inputs' = (inputs (-) SetToBag({i})) (+)
                         SetToBag({[i EXCEPT !.blurs = @ - 1, !.removals = @ + 1]})
       ELSE /\ inputs' = Kept((inputs (-) SetToBag({i})) (+)
                              SetToBag({[i EXCEPT !.blurs = @ - 1]}))
            /\ UNCHANGED uploadState
    /\ UNCHANGED << mounted, props, inputListeners, previewUri, fileDialog,
                    processing, timers, objectUrls, calls, selected >>
    /\ UNCHANGED << screen, cloudinary >>

\* the camera input of WebPhotoUpload.tsx in a browser that dispatches its
\* blur events
NextBlur ==
    \/ openCamera
    \/ dialogDismissed
    \/ handleCancel
    \/ \E file \in UploadFiles : handleFileSelect(file)
    \/ \E p \in processing : validated(p)
    \/ \E p \in processing : \E event \in {"load", "error"} : readerSettled(p, event)
    \/ inputRemoved("camera")
    \/ \E i \in BagToSet(inputs) : inputBlurred(i)
    \/ \E i \in BagToSet(inputs) : blurTimerFired(i)

InitBlur ==
    /\ InitUpload
    /\ platform = "web" /\ "cancel" \in inputListeners

SpecBlur == InitBlur /\ [][NextBlur]_vars

\* the files of the component's gallery input read by a FileReader that can
\* also deliver an empty result
InitReader ==
    /\ InitUpload
    /\ ~props.disabled /\ props.currentImage = NoRef

NextReader ==
    \/ openGallery
    \/ \E file \in UploadFiles : handleFileSelect(file)
    \/ \E p \in processing : validated(p)
    \/ \E p \in processing : \E event \in {"load", "error", "empty"} : readerSettled(p, event)
    \/ clearImage

SpecReader == InitReader /\ [][NextReader]_vars

\* the validation on its own, with a file at each side of every limit
NextValidate ==
    \/ openGallery
    \/ \E file \in Files : handleFileSelect(file)
    \/ \E p \in processing : validated(p)

SpecValidate == InitUpload /\ [][NextValidate]_vars

\* ------------------------------------------------------- cloudinary helpers

\* JavaScript values an argument can hold: strings as character sequences
JsString(s) == [type |-> "string", n |-> 0, s |-> s]
JsNumber(n) == [type |-> "number", n |-> n, s |-> <<>>]
JsBoolean(b) == [type |-> "boolean", n |-> IF b THEN 1 ELSE 0, s |-> <<>>]
JsUndefined == [type |-> "undefined", n |-> 0, s |-> <<>>]

\* ToBoolean: what `if (v)` and `!v` test
Truthy(v) ==
    CASE v.type = "string" -> v.s # <<>>
      [] v.type = "number" -> v.n # 0
      [] v.type = "boolean" -> v.n = 1
      [] OTHER -> FALSE

\* Number.prototype.toString of a natural number
RECURSIVE NumberToString(_)
NumberToString(n) ==
    LET digit(d) == <<"0", "1", "2", "3", "4", "5", "6", "7", "8", "9">>[d + 1]
    IN  IF n < 10 THEN <<digit(n)>>
        ELSE NumberToString(n \div 10) \o <<digit(n % 10)>>

\* `${v}` in a template literal
template(v) ==
    CASE v.type = "string" -> v.s
      [] v.type = "number" -> NumberToString(v.n)
      [] v.type = "boolean" -> IF v.n = 1 THEN <<"t", "r", "u", "e">> ELSE <<
                                                                             "f",
                                                                             "a",
                                                                             "l",
                                                                             "s",
                                                                             "e">>
      [] OTHER -> <<"u", "n", "d", "e", "f", "i", "n", "e", "d">>

\* String.prototype.includes
includes(s, sub) ==
    \E i \in 0..(Len(s) - Len(sub)) : SubSeq(s, i + 1, i + Len(sub)) = sub

\* String.prototype.split on a one-character separator
RECURSIVE split(_, _)
split(s, sep) ==
    LET i == IndexOfAny(s, {sep}, 1)
    IN  IF i = 0 THEN <<s>>
        ELSE <<SubSeq(s, 1, i - 1)>> \o split(SubSeq(s, i + 1, Len(s)), sep)

\* Array.prototype.join
RECURSIVE join(_, _)
join(parts, sep) ==
    IF parts = <<>> THEN <<>>
    ELSE IF Len(parts) = 1 THEN parts[1]
    ELSE parts[1] \o sep \o join(Tail(parts), sep)

\* the URL parser's path state: "." is dropped, ".." drops the segment
\* before it, and either of them in last place leaves an empty segment
RECURSIVE PathState(_, _)
PathState(segments, path) ==
    IF segments = <<>> THEN path
    ELSE LET seg  == Head(segments)
             last == IF Len(segments) = 1 THEN << <<>> >> ELSE <<>>
         IN  IF seg = <<".", ".">>
             THEN PathState(Tail(segments),
                            SubSeq(path, 1, Len(path) - 1) \o last)
             ELSE IF seg = <<".">>
             THEN PathState(Tail(segments), path \o last)
             ELSE PathState(Tail(segments), Append(path, seg))

\* the pathname of a URL whose path is written p (also `u.pathname = p`)
Pathname(p) ==
    LET written == IF p # <<>> /\ Head(p) = "/" THEN Tail(p) ELSE p
    IN  <<"/">> \o join(PathState(split(written, "/"), <<>>), <<"/">>)

\* new URL(s) for the schemes with an authority: the scheme and the host are
\* lower-cased, the path is normalised; valid is FALSE where the constructor
\* throws (no scheme, as in a relative reference, or no host)
URL(s) ==
    LET invalid == [valid |-> FALSE, scheme |-> <<>>, host |-> <<>>,
                    pathname |-> <<>>, search |-> <<>>, hash |-> <<>>]
        \* the query runs up to the first "#", the fragment is the rest
        components(scheme, host, path, suffix) ==
            LET hashAt == IndexOfAny(suffix, {"#"}, 1)
            IN  [valid |-> TRUE, scheme |-> scheme, host |-> toLowerCase(host),
                 pathname |-> Pathname(path),
                 search |-> IF hashAt = 0 THEN suffix
                            ELSE SubSeq(suffix, 1, hashAt - 1),
                 hash |-> IF hashAt = 0 THEN <<>>
                          ELSE SubSeq(suffix, hashAt, Len(suffix))]
        \* the path runs up to the first "?" or "#"
        afterHost(scheme, host, tail) ==
            LET pathEnd == IndexOfAny(tail, {"?", "#"}, 1)
            IN  IF host = <<>> THEN invalid
                ELSE IF pathEnd = 0 THEN components(scheme, host, tail, <<>>)
                ELSE components(scheme, host, SubSeq(tail, 1, pathEnd - 1),
                                SubSeq(tail, pathEnd, Len(tail)))
        \* the host runs up to the first "/", "?" or "#"
        authority(scheme, rest) ==
            LET hostEnd == IndexOfAny(rest, {"/", "?", "#"}, 1)
            IN  IF hostEnd = 0 THEN afterHost(scheme, rest, <<>>)
                ELSE afterHost(scheme, SubSeq(rest, 1, hostEnd - 1),
                               SubSeq(rest, hostEnd, Len(rest)))
        \* the slashes after the scheme are skipped
        afterScheme(scheme, rest) ==
            LET slashes ==
                    IF \A i \in 1..Len(rest) : rest[i] = "/" THEN Len(rest)
                    ELSE (CHOOSE i \in 1..Len(rest) :
                             /\ rest[i] # "/"
                             /\ \A j \in 1..(i - 1) : rest[j] = "/") - 1
            IN  IF scheme \notin {<<"h", "t", "t", "p">>, <<"h", "t", "t",
                                                            "p", "s">>} THEN invalid
                ELSE authority(scheme, SubSeq(rest, slashes + 1, Len(rest)))
        \* the scheme runs up to the first ":"
        parse(colon) ==
            IF colon = 0 THEN invalid
            ELSE afterScheme(toLowerCase(SubSeq(s, 1, colon - 1)),
                             SubSeq(s, colon + 1, Len(s)))
    IN  parse(IndexOfAny(s, {":"}, 1))

\* URL.prototype.toString
href(u) == u.scheme \o <<":", "/", "/">> \o u.host \o u.pathname \o u.search \o u.hash

\* ---------------------------------------------------- transformCloudinaryUrl

\* the transformation segment: `tx.join(',')`
txString(opts) ==
    LET q == IF opts.quality = JsUndefined THEN JsString(<<"a", "u", "t", "o">>)
             ELSE opts.quality
        f == IF opts.format = JsUndefined THEN JsString(<<"a", "u", "t", "o">>)
             ELSE opts.format
        when(v, prefix) ==
            IF Truthy(v) THEN <<prefix \o template(v)>> ELSE <<>>
        tx == << <<"q", "_">> \o template(q), <<"f", "_">> \o template(f) >>
              \o (IF Truthy(opts.progressive)
                  THEN << <<"f", "l", "_", "p", "r", "o", "g", "r", "e", "s",
                            "s", "i", "v", "e">> >> ELSE <<>>)
              \o when(opts.crop, <<"c", "_">>)
              \o when(opts.gravity, <<"g", "_">>)
              \o when(opts.width, <<"w", "_">>)
              \o when(opts.height, <<"h", "_">>)
              \o when(opts.dpr, <<"d", "p", "r", "_">>)
    IN  join(tx, <<",">>)

\* variant: the URL constructor's exception leaving the function
transformUncaught(url, opts) ==
    IF includes(url.s, <<"c", "l", "o", "u", "d", "i", "n", "a", "r", "y",
                         ".", "c", "o", "m">>) /\ ~URL(url.s).valid
    THEN [raised |-> TRUE, value |-> JsUndefined]
    ELSE [raised |-> FALSE, value |-> url]

\* transformCloudinaryUrl(url, opts): the value returned, or raised when an
\* exception leaves the function; opts is a record of the eight options, or
\* JsUndefined, whose property reads throw inside the try block
transformCloudinaryUrl(url, opts) ==
    LET returns(v) == [raised |-> FALSE, value |-> v]
        \* lines 41-45: the segment goes in after parts[uploadIndex]
        rewritten(u, parts, uploadIndex) ==
            href([u EXCEPT !.pathname =
                    Pathname(join(SubSeq(parts, 1, uploadIndex), <<"/">>)
                             \o <<"/">> \o txString(opts) \o <<"/">>
                             \o join(SubSeq(parts, uploadIndex + 1, Len(parts)),
                                     <<"/">>))])
        \* lines 26-27: findIndex, found being the indexes of the upload segments
        located(u, parts, found) ==
            IF found = {} THEN returns(url)
            ELSE IF opts = JsUndefined THEN returns(url)
            ELSE returns(JsString(
                     rewritten(u, parts,
                               CHOOSE i \in found : \A j \in found : i <= j)))
        \* line 25
        pathSplit(u, parts) ==
            located(u, parts, {i \in 1..Len(parts) : parts[i] = <<"u", "p",
                                                                  "l", "o",
                                                                  "a", "d">>})
        \* line 24: a throwing constructor ends in the catch clause
        parsed(u) ==
            IF ~u.valid THEN returns(url)
            ELSE pathSplit(u, split(u.pathname, "/"))
    IN  IF ~Truthy(url) \/ url.type # "string" THEN returns(url)
        ELSE IF ~(\/ includes(url.s, <<"r", "e", "s", ".", "c", "l", "o",
                                       "u", "d", "i", "n", "a", "r", "y",
                                       ".", "c", "o", "m">>)
                  \/ includes(url.s, <<"c", "l", "o", "u", "d", "i", "n",
                                       "a", "r", "y", ".", "c", "o", "m">>))
        THEN returns(url)
        ELSE parsed(URL(url.s))

\* variant: the default options without the width
OptionsWithoutWidth ==
    [ quality |-> JsString(<<"a", "u", "t", "o">>), format |-> JsString(<<
                                                                          "a",
                                                                          "u",
                                                                          "t",
                                                                          "o">>),
      progressive |-> JsBoolean(TRUE), crop |-> JsString(<<"f", "i", "l", "l">>),
      gravity |-> JsString(<<"a", "u", "t", "o">>), width |-> JsUndefined,
      height |-> JsUndefined, dpr |-> JsString(<<"a", "u", "t", "o">>) ]

\* the options uploadImageToCloudinary passes
DefaultOptions ==
    [ quality |-> JsString(<<"a", "u", "t", "o">>), format |-> JsString(<<
                                                                          "a",
                                                                          "u",
                                                                          "t",
                                                                          "o">>),
      progressive |-> JsBoolean(TRUE), crop |-> JsString(<<"f", "i", "l", "l">>),
      gravity |-> JsString(<<"a", "u", "t", "o">>), width |-> JsNumber(1080),
      height |-> JsUndefined, dpr |-> JsString(<<"a", "u", "t", "o">>) ]

\* the URLs the function is called with: delivery URLs of the image host
\* (with a version, ending in upload, with two upload segments, with a query
\* and a fragment, with dot segments, with an upper-case scheme, of the fetch
\* kind), a URL of another host, one that names the host in its query only,
\* a reference without scheme, the empty string
TransformUrls ==
    { <<"h", "t", "t", "p", "s", ":", "/", "/", "r", "e", "s", ".", "c", "l",
        "o", "u", "d", "i", "n", "a", "r", "y", ".", "c", "o", "m", "/", "d",
        "f", "4", "t", "x", "4", "e", "r", "p", "/", "i", "m", "a", "g", "e",
        "/", "u", "p", "l", "o", "a", "d", "/", "v", "1", "/", "x", ".", "j",
        "p", "g">>,
      <<"h", "t", "t", "p", "s", ":", "/", "/", "r", "e", "s", ".", "c", "l",
        "o", "u", "d", "i", "n", "a", "r", "y", ".", "c", "o", "m", "/", "d",
        "f", "4", "t", "x", "4", "e", "r", "p", "/", "i", "m", "a", "g", "e",
        "/", "u", "p", "l", "o", "a", "d">>,
      <<"h", "t", "t", "p", "s", ":", "/", "/", "r", "e", "s", ".", "c", "l",
        "o", "u", "d", "i", "n", "a", "r", "y", ".", "c", "o", "m", "/", "u",
        "p", "l", "o", "a", "d", "/", "a", "/", "u", "p", "l", "o", "a", "d",
        "/", "x", ".", "j", "p", "g">>,
      <<"h", "t", "t", "p", "s", ":", "/", "/", "r", "e", "s", ".", "c", "l",
        "o", "u", "d", "i", "n", "a", "r", "y", ".", "c", "o", "m", "/", "d",
        "/", "u", "p", "l", "o", "a", "d", "/", "x", ".", "j", "p", "g", "?",
        "a", "=", "/", "u", "p", "l", "o", "a", "d", "/", "#", "t", "o", "p">>,
      <<"h", "t", "t", "p", "s", ":", "/", "/", "r", "e", "s", ".", "c", "l",
        "o", "u", "d", "i", "n", "a", "r", "y", ".", "c", "o", "m", "/", "d",
        "/", ".", "/", "u", "p", "l", "o", "a", "d", "/", "v", "1", "/", ".",
        ".", "/", "x", ".", "j", "p", "g">>,
      <<"H", "T", "T", "P", "S", ":", "/", "/", "r", "e", "s", ".", "c", "l",
        "o", "u", "d", "i", "n", "a", "r", "y", ".", "c", "o", "m", "/", "d",
        "/", "u", "p", "l", "o", "a", "d", "/", "x", ".", "j", "p", "g">>,
      <<"h", "t", "t", "p", "s", ":", "/", "/", "r", "e", "s", ".", "c", "l",
        "o", "u", "d", "i", "n", "a", "r", "y", ".", "c", "o", "m", "/", "d",
        "/", "i", "m", "a", "g", "e", "/", "f", "e", "t", "c", "h", "/", "x",
        ".", "j", "p", "g">>,
      <<"h", "t", "t", "p", "s", ":", "/", "/", "r", "e", "s", ".", "c", "l",
        "o", "u", "d", "i", "n", "a", "r", "y", ".", "c", "o", "m", "/", "d",
        "/", "x", ".", "j", "p", "g", "?", "n", "e", "x", "t", "=", "/", "u",
        "p", "l", "o", "a", "d", "/">>,
      <<"h", "t", "t", "p", "s", ":", "/", "/", "c", "d", "n", ".", "e", "x",
        "a", "m", "p", "l", "e", ".", "c", "o", "m", "/", "u", "p", "l", "o",
        "a", "d", "/", "x", ".", "j", "p", "g">>,
      <<"h", "t", "t", "p", "s", ":", "/", "/", "e", "x", "a", "m", "p", "l",
        "e", ".", "c", "o", "m", "/", "u", "p", "l", "o", "a", "d", "/", "x",
        ".", "j", "p", "g", "?", "v", "i", "a", "=", "c", "l", "o", "u", "d",
        "i", "n", "a", "r", "y", ".", "c", "o", "m">>,
      <<"r", "e", "s", ".", "c", "l", "o", "u", "d", "i", "n", "a", "r", "y",
        ".", "c", "o", "m", "/", "d", "/", "u", "p", "l", "o", "a", "d", "/",
        "x", ".", "j", "p", "g">>,
      <<>> }

\* the options of a call: each one left out or set, the numeric ones also to 0
TransformOptions ==
    [ quality     : {JsUndefined, JsNumber(0), JsNumber(80)},
      format      : {JsUndefined, JsString(<<"w", "e", "b", "p">>)},
      progressive : {JsUndefined, JsBoolean(FALSE), JsBoolean(TRUE)},
      crop        : {JsUndefined, JsString(<<"f", "i", "t">>)},
      gravity     : {JsUndefined, JsString(<<"f", "a", "c", "e">>)},
      width       : {JsUndefined, JsNumber(0), JsNumber(640)},
      height      : {JsUndefined, JsNumber(0), JsNumber(480)},
      dpr         : {JsUndefined, JsNumber(0), JsString(<<"a", "u", "t", "o">>)} ]

\* a call of transformCloudinaryUrl with a string and an options object
InitTransform ==
    /\ user = NoUser
    /\ platform \in Platforms
    /\ form = EmptyForm
    /\ errors = NoErrors
    /\ photoPreview = NoRef
    /\ photoUrl = NoRef
    /\ state = Step("idle", Undefined)
    /\ showImagePicker = FALSE
    /\ isSubmitting = FALSE
    /\ view = Snapshot
    /\ dialogOpen = FALSE
    /\ picks = EmptyBag
    /\ writes = {}
    /\ docs = {}
    /\ returned = {}
    /\ issued = 0
    /\ stale = 0
    /\ alert = "none"
    /\ NotMounted
    /\ request \in [url : {JsString(s) : s \in TransformUrls},
                    opts : TransformOptions]
    /\ outcome = [pc |-> "called", value |-> JsUndefined]

\* the call returns, or an exception leaves it
transformReturned ==
    /\ outcome.pc = "called"
    /\ LET r == transformCloudinaryUrl(request.url, request.opts)
       IN  outcome' = [pc |-> IF r.raised THEN "raised" ELSE "returned",
                       value |-> r.value]
    /\ UNCHANGED << request, screen, component >>

SpecTransform == InitTransform /\ [][transformReturned]_vars

\* --------------------------------------------------- uploadImageToCloudinary

\* the response of the upload endpoint: its status, its body as text, whether
\* the body parses as JSON, and the secure_url and error.message it then has
Response(status, text, json, secure_url, error) ==
    [ status |-> status, text |-> text, json |-> json,
      secure_url |-> secure_url, error |-> error ]

\* variant: the secure_url handed back as the endpoint gave it
uploadImageRaw(draft, resp) ==
    IF resp.status \in 200..299 /\ resp.json /\ Truthy(resp.secure_url)
    THEN [ok |-> TRUE, url |-> resp.secure_url, message |-> <<>>]
    ELSE [ok |-> FALSE, url |-> JsUndefined, message |-> <<>>]

\* uploadImageToCloudinary once the endpoint has answered: the promise is
\* fulfilled with url or rejected with an Error of the given message
uploadImageToCloudinary(draft, resp) ==
    LET ok == resp.status \in 200..299
        \* message of the SyntaxError `response.json()` rejects with
        JsonSyntaxError == <<"U", "n", "e", "x", "p", "e", "c", "t", "e", "d", " ", "t", "o", "k", "e", "n">>
        rejected(m) == [ok |-> FALSE, url |-> JsUndefined, message |-> m]
        fulfilled(r) == IF r.raised THEN rejected(<<>>)
                        ELSE [ok |-> TRUE, url |-> r.value, message |-> <<>>]
        transformed == transformCloudinaryUrl(resp.secure_url, DefaultOptions)
    IN  IF draft = "part_000"
        THEN IF ~ok
             THEN rejected(Trim(<<"U", "p", "l", "o", "a", "d", " ", "f",
                                  "a", "i", "l", "e", "d", " ", "(">>
                                \o NumberToString(resp.status) \o <<")", ".",
                                                                    " ">>
                                \o resp.text))
             ELSE IF ~resp.json THEN rejected(JsonSyntaxError)
             ELSE IF ~Truthy(resp.secure_url)
             THEN rejected(<<"U", "p", "l", "o", "a", "d", " ", "s", "u",
                             "c", "c", "e", "e", "d", "e", "d", " ", "b",
                             "u", "t", " ", "n", "o", " ", "s", "e", "c",
                             "u", "r", "e", "_", "u", "r", "l", " ", "r",
                             "e", "t", "u", "r", "n", "e", "d">>)
             ELSE fulfilled(transformed)
        ELSE IF ~resp.json THEN rejected(JsonSyntaxError)
             ELSE IF ~ok \/ ~Truthy(resp.secure_url)
             THEN rejected(IF Truthy(resp.error) THEN template(resp.error)
                           ELSE <<"I", "m", "a", "g", "e", " ", "u", "p",
                                  "l", "o", "a", "d", " ", "f", "a", "i",
                                  "l", "e", "d", ".", " ", "N", "o", " ",
                                  "U", "R", "L", " ", "r", "e", "t", "u",
                                  "r", "n", "e", "d", ".">>)
             ELSE fulfilled(transformed)

\* the bodies the endpoint answers with: an upload result whose secure_url is
\* of the image host or of the account's own delivery domain, objects without
\* secure_url (empty, or with an error message), text that is not JSON
ResponseBodies ==
    { Response(0, <<"{", "\"", "s", "e", "c", "u", "r", "e", "_", "u", "r",
                    "l", "\"", ":", "\"", "h", "t", "t", "p", "s", ":", "/",
                    "/", "r", "e", "s", ".", "c", "l", "o", "u", "d", "i",
                    "n", "a", "r", "y", ".", "c", "o", "m", "/", "d", "f",
                    "4", "t", "x", "4", "e", "r", "p", "/", "i", "m", "a",
                    "g", "e", "/", "u", "p", "l", "o", "a", "d", "/", "v",
                    "1", "/", "x", ".", "j", "p", "g", "\"", "}">>,
               TRUE,
               JsString(<<"h", "t", "t", "p", "s", ":", "/", "/", "r", "e",
                          "s", ".", "c", "l", "o", "u", "d", "i", "n", "a",
                          "r", "y", ".", "c", "o", "m", "/", "d", "f", "4",
                          "t", "x", "4", "e", "r", "p", "/", "i", "m", "a",
                          "g", "e", "/", "u", "p", "l", "o", "a", "d", "/",
                          "v", "1", "/", "x", ".", "j", "p", "g">>),
               JsUndefined),
      Response(0, <<"{", "\"", "s", "e", "c", "u", "r", "e", "_", "u", "r",
                    "l", "\"", ":", "\"", "h", "t", "t", "p", "s", ":", "/",
                    "/", "i", "m", "a", "g", "e", "s", ".", "e", "x", "a",
                    "m", "p", "l", "e", ".", "c", "o", "m", "/", "i", "m",
                    "a", "g", "e", "/", "u", "p", "l", "o", "a", "d", "/",
                    "v", "1", "/", "x", ".", "j", "p", "g", "\"", "}">>,
               TRUE,
               JsString(<<"h", "t", "t", "p", "s", ":", "/", "/", "i", "m",
                          "a", "g", "e", "s", ".", "e", "x", "a", "m", "p",
                          "l", "e", ".", "c", "o", "m", "/", "i", "m", "a",
                          "g", "e", "/", "u", "p", "l", "o", "a", "d", "/",
                          "v", "1", "/", "x", ".", "j", "p", "g">>),
               JsUndefined),
      Response(0, <<"{", "}">>, TRUE, JsUndefined, JsUndefined),
      Response(0, <<"{", "\"", "e", "r", "r", "o", "r", "\"", ":", "{", "\"",
                    "m", "e", "s", "s", "a", "g", "e", "\"", ":", "\"", "U",
                    "p", "l", "o", "a", "d", " ", "p", "r", "e", "s", "e",
                    "t", " ", "n", "o", "t", " ", "f", "o", "u", "n", "d",
                    "\"", "}", "}">>, TRUE,
               JsUndefined, JsString(<<"U", "p", "l", "o", "a", "d", " ",
                                       "p", "r", "e", "s", "e", "t", " ",
                                       "n", "o", "t", " ", "f", "o", "u",
                                       "n", "d">>)),
      Response(0, <<"B", "a", "d", " ", "G", "a", "t", "e", "w", "a", "y">>,
               FALSE, JsUndefined, JsUndefined),
      Response(0, <<>>, FALSE, JsUndefined, JsUndefined) }

\* a call of either draft of the function (part_000, part_001), the endpoint
\* having answered with one of the bodies under a success or a failure status
InitUploader ==
    /\ user = NoUser
    /\ platform \in Platforms
    /\ form = EmptyForm
    /\ errors = NoErrors
    /\ photoPreview = NoRef
    /\ photoUrl = NoRef
    /\ state = Step("idle", Undefined)
    /\ showImagePicker = FALSE
    /\ isSubmitting = FALSE
    /\ view = Snapshot
    /\ dialogOpen = FALSE
    /\ picks = EmptyBag
    /\ writes = {}
    /\ docs = {}
    /\ returned = {}
    /\ issued = 0
    /\ stale = 0
    /\ alert = "none"
    /\ NotMounted
    /\ request \in [draft : {"part_000", "part_001"},
                    response : {[b EXCEPT !.status = s] :
                                   b \in ResponseBodies,
                                   s \in {200, 201, 400, 401, 500}}]
    /\ outcome = [pc |-> "pending", url |-> JsUndefined, message |-> <<>>]

\* the promise uploadImageToCloudinary returned settles
uploadSettled ==
    /\ outcome.pc = "pending"
    /\ LET r == uploadImageToCloudinary(request.draft, request.response)
       IN  outcome' = [pc |-> IF r.ok THEN "fulfilled" ELSE "rejected",
                       url |-> r.url, message |-> r.message]
    /\ UNCHANGED << request, screen, component >>

SpecUploader == InitUploader /\ [][uploadSettled]_vars

\* ------------------------------------- uploadImageToCloudinary, its fetches

\* what a caller can hand to uploadImageToCloudinary
UploadInputs == {"File", "Blob", "file-uri", "data-uri", "number"}

\* a call of either draft with one of the inputs; `decodes` tells whether
\* fetch(input) of a data: URI will succeed, `answers` whether the POST will
\* get a response, `response` which one
InitFetches ==
    /\ user = NoUser
    /\ platform \in Platforms
    /\ form = EmptyForm
    /\ errors = NoErrors
    /\ photoPreview = NoRef
    /\ photoUrl = NoRef
    /\ state = Step("idle", Undefined)
    /\ showImagePicker = FALSE
    /\ isSubmitting = FALSE
    /\ view = Snapshot
    /\ dialogOpen = FALSE
    /\ picks = EmptyBag
    /\ writes = {}
    /\ docs = {}
    /\ returned = {}
    /\ issued = 0
    /\ stale = 0
    /\ alert = "none"
    /\ NotMounted
    /\ request \in [draft : {"part_000", "part_001"},
                    input : UploadInputs,
                    decodes : BOOLEAN,
                    answers : BOOLEAN,
                    response : {[b EXCEPT !.status = s] :
                                   b \in ResponseBodies, s \in {200, 500}}]
    /\ outcome = [pc |-> "called", fetches |-> <<>>, url |-> JsUndefined,
                  message |-> <<>>]

\* the promise is rejected with an Error of message m
Rejected(m) == [outcome EXCEPT !.pc = "rejected", !.message = m]

\* part_000:53-79, part_001:58-73: the form data is built; part_000 reads a
\* data: URI with fetch(input) first and throws on an input that is neither a
\* string, a File nor a Blob; otherwise the POST is issued
formDataBuilt ==
    /\ outcome.pc = "called"
    /\ outcome' =
          IF request.draft = "part_000" /\ request.input = "data-uri"
          THEN [outcome EXCEPT !.pc = "decoding", !.fetches = <<"data:">>]
          ELSE IF request.draft = "part_000" /\ request.input = "number"
          THEN Rejected(<<"U", "n", "s", "u", "p", "p", "o", "r", "t", "e",
                          "d", " ", "i", "m", "a", "g", "e", " ", "i", "n",
                          "p", "u", "t">>)
          ELSE [outcome EXCEPT !.pc = "posted", !.fetches = <<"POST">>]
    /\ UNCHANGED << request, screen, component >>

\* part_000:61-63: fetch(input) of the data: URI settles; the POST follows
dataUriFetched ==
    /\ outcome.pc = "decoding"
    /\ outcome' =
          IF request.decodes
          THEN [outcome EXCEPT !.pc = "posted",
                               !.fetches = Append(@, "POST")]
          ELSE Rejected(<<"F", "a", "i", "l", "e", "d", " ", "t", "o", " ",
                          "f", "e", "t", "c", "h">>)
    /\ UNCHANGED << request, screen, component >>

\* variant: the POST issued again after a failure
postSettledRetrying ==
    /\ outcome.pc = "posted"
    /\ outcome' = [outcome EXCEPT !.fetches = Append(@, "POST")]
    /\ Len(outcome.fetches) < 3
    /\ UNCHANGED << request, screen, component >>

\* part_000:81-105, part_001:76-103: the POST settles, and with it the call
postSettled ==
    /\ outcome.pc = "posted"
    /\ outcome' =
          IF ~request.answers THEN Rejected(<<"N", "e", "t", "w", "o", "r",
                                              "k", " ", "r", "e", "q", "u",
                                              "e", "s", "t", " ", "f", "a",
                                              "i", "l", "e", "d">>)
          ELSE LET r == uploadImageToCloudinary(request.draft, request.response)
               IN  [outcome EXCEPT !.pc = IF r.ok THEN "fulfilled" ELSE "rejected",
                                   !.url = r.url, !.message = r.message]
    /\ UNCHANGED << request, screen, component >>

NextFetches == formDataBuilt \/ dataUriFetched \/ postSettled

SpecFetches == InitFetches /\ [][NextFetches]_vars

\* ------------------------------------------------------------------ claims

\* C1: two invocations of onSubmit in rapid succession, the second while the
\* first write is in flight, write exactly one document: the store never
\* holds two documents of which one was submitted while the other's write
\* was in flight.
C1_RapidSubmitsWriteOnce ==
    \A d1 \in docs : \A d2 \in docs : d1.n \notin d2.after

\* C2: once rendered, the submit control is disabled whenever a submission
\* is in progress or the upload state's step is picking, validating or
\* uploading.
C2_SubmitDisabledWhileBusy ==
    (/\ view = Snapshot
     /\ isSubmitting \/ state.step \in {"picking", "validating", "uploading"})
        => view.disabled

\* C3: never more than one acquisition pipeline with an outstanding picker
\* or upload, and never more than one outstanding database write.
C3_OnePipelineOneWrite ==
    LET outstanding ==
            [p \in {q \in InFlight : q.pc \in {"picker", "upload"}} |->
                CopiesIn(p, picks)]
    IN  /\ BagCardinality(outstanding) <= 1
        /\ Cardinality(writes) <= 1

\* C4: every document handed to the store carries a profileImageUrl that
\* uploadImageToCloudinary returned earlier on this screen, never a local
\* reference and never null; and a submit while no URL is stored issues no
\* write.
C4_WrittenUrlWasReturned ==
    [][/\ \A w \in writes' \cup docs' :
            /\ w.doc.profileImageUrl \in returned'
            /\ w.doc.profileImageUrl.kind = "cdn"
       /\ (onSubmit /\ photoUrl = NoRef) => (writes' = writes /\ issued' = issued)]_vars

\* a document is stored, and its URL is one the upload returned
C4_Witness ==
    \E d \in docs : d.doc.profileImageUrl \in returned /\ d.doc.profileImageUrl # NoRef

\* C5 as stated: a submit while no photo URL is stored sets the photo error
\* and issues no write, whatever else holds.
C5_NoPhotoAlwaysPhotoError ==
    [][(onSubmit /\ photoUrl = NoRef) =>
          /\ errors'["photo"] = "Profile photo is required"
          /\ writes' = writes /\ issued' = issued]_vars

\* C5 amended: a submit by a signed-in, verified user while no photo URL is
\* stored sets the photo error and issues no write, whatever the form's
\* fields hold; for any other user it issues no write either.
C5_NoPhotoBlocksVerifiedUser ==
    [][(onSubmit /\ photoUrl = NoRef) =>
          /\ writes' = writes /\ issued' = issued
          /\ (user.id # "" /\ user.username # "" /\ user.status = APPROVED)
                => errors'["photo"] = "Profile photo is required"]_vars

\* the photo error is on display with every field of the form valid, no
\* URL stored and nothing written
C5_Witness ==
    /\ errors["photo"] = "Profile photo is required"
    /\ photoUrl = NoRef
    /\ issued = 0
    /\ \A k \in FormKeys : validate(form, photoUrl)[k] = Undefined
    /\ \A k \in FormKeys : errors[k] = Undefined

\* C6 as stated: the preconditions are, in order, identity present, status
\* equal to the approved value, fields valid, photo URL present (the last
\* two on the form and the URL of the render the handler belongs to); the
\* first that fails decides what the user sees, the later ones leave no
\* trace, and no write is issued.
C6_OrderByStatus ==
    [][onSubmit =>
          LET f == view.form
              url == view.photoUrl
              invalid == \E k \in FormKeys : validate(f, url)[k] # Undefined
              failure ==
                  IF user.id = "" THEN "identity"
                  ELSE IF user.status # APPROVED THEN "status"
                  ELSE IF invalid THEN "fields"
                  ELSE IF url = NoRef THEN "photo"
                  ELSE "none"
          IN  CASE failure = "identity" ->
                     /\ alert' = "Login Required"
                     /\ errors' = errors /\ issued' = issued
                [] failure = "status" ->
                     /\ alert' = "Verification Required"
                     /\ errors' = errors /\ issued' = issued
                [] failure = "fields" ->
                     /\ alert' = alert /\ issued' = issued
                     /\ \A k \in FormKeys : errors'[k] = validate(f, url)[k]
                [] failure = "photo" ->
                     /\ alert' = alert /\ issued' = issued
                     /\ errors'["photo"] = "Profile photo is required"
                [] failure = "none" ->
                     alert' = alert /\ issued' = issued + 1]_vars

\* C6 amended: the second precondition is that the identity has a username
\* and its status equals the approved value; otherwise as stated.
C6_OrderByUsernameAndStatus ==
    [][onSubmit =>
          LET f == view.form
              url == view.photoUrl
              invalid == \E k \in FormKeys : validate(f, url)[k] # Undefined
              failure ==
                  IF user.id = "" THEN "identity"
                  ELSE IF user.username = "" \/ user.status # APPROVED THEN "status"
                  ELSE IF invalid THEN "fields"
                  ELSE IF url = NoRef THEN "photo"
                  ELSE "none"
          IN  CASE failure = "identity" ->
                     /\ alert' = "Login Required"
                     /\ errors' = errors /\ issued' = issued
                [] failure = "status" ->
                     /\ alert' = "Verification Required"
                     /\ errors' = errors /\ issued' = issued
                [] failure = "fields" ->
                     /\ alert' = alert /\ issued' = issued
                     /\ \A k \in FormKeys : errors'[k] = validate(f, url)[k]
                [] failure = "photo" ->
                     /\ alert' = alert /\ issued' = issued
                     /\ errors'["photo"] = "Profile photo is required"
                [] failure = "none" ->
                     alert' = alert /\ issued' = issued + 1]_vars

\* a user whose status is the approved value but who has no username has
\* been shown the verification alert, and nothing was written
C6_Witness ==
    /\ alert = "Verification Required"
    /\ user.status = APPROVED /\ user.username = ""
    /\ issued = 0

\* C7: a submit with an age string that is not an integer numeral (decimal
\* digits only, blanks around them apart), or whose value is outside 18..95,
\* reports an age error and issues no write; with an integer numeral in
\* 18..95 it reports no age error.
C7_AgeNumeralInRange ==
    [][onSubmit =>
          LET age == Trim(view.form.age)
          IN  IF AllIn(age, Digits) /\ RadixValue(age, 10) \in 18..95
              THEN errors'["age"] = Undefined
              ELSE errors'["age"] # Undefined /\ issued' = issued]_vars

\* C8: a picture whose decoded width or height is below 100 or above 4000
\* is never handed to uploadImageToCloudinary.
C8_OutOfRangeNeverUploaded ==
    \A p \in InFlight : p.pc = "upload" => dimensionsValid(p.img)

\* C9: when the upload of an acquisition fails, the upload state becomes
\* error with the failure's message and the preview is null afterwards.
C9_FailedUploadDiscardsPreview ==
    [][\A p \in InFlight : \A m \in UploadErrors :
          LET r == [ok |-> FALSE, url |-> NoRef, message |-> m]
          IN  (handlePickUploaded(p, r) \/ fileInputUploaded(p, r)) =>
                 /\ state' = Step("error", m)
                 /\ photoPreview' = NoRef]_vars

\* C10: when the upload of an acquisition succeeds, the returned URL is
\* stored, the photo error is cleared and the step becomes idle.
C10_UploadSuccessClearsPhotoError ==
    [][\A p \in InFlight :
          LET r == [ok |-> TRUE, url |-> CdnUrl(p.img), message |-> Undefined]
          IN  (handlePickUploaded(p, r) \/ fileInputUploaded(p, r)) =>
                 /\ photoUrl' = r.url
                 /\ errors'["photo"] = Undefined
                 /\ state'.step = "idle"]_vars

\* C11: every change of the upload state's step during an acquisition is
\* one of idle to picking, picking to validating, picking or validating to
\* uploading, uploading to idle, picking to idle, picking, validating or
\* uploading to error, error to idle or picking.
C11_StepTransitions ==
    [][state'.step # state.step =>
          <<state.step, state'.step>> \in
              { <<"idle", "picking">>, <<"picking", "validating">>,
                <<"picking", "uploading">>, <<"validating", "uploading">>,
                <<"uploading", "idle">>, <<"picking", "idle">>,
                <<"picking", "error">>, <<"validating", "error">>,
                <<"uploading", "error">>, <<"error", "idle">>,
                <<"error", "picking">> }]_vars

\* C12 as stated: on the native platform, when the permission handlePick
\* requested is not granted, the step becomes error and no picker is
\* launched.
C12_DenialSetsError ==
    [][\A p \in InFlight :
          (platform = "native" /\ permissionResolved(p, "denied")) =>
              /\ state'.step = "error"
              /\ \A q \in BagToSet(picks') :
                    q.pc = "picker" => CopiesIn(q, picks') = CopiesIn(q, picks)]_vars

\* C12 amended: on the native platform, when the permission handlePick
\* requested is not granted, an alert named after the source is raised, the
\* upload state is left as it was, the acquisition ends and no picker is
\* launched.
C12_DenialAlertsAndStops ==
    [][\A p \in InFlight :
          (platform = "native" /\ permissionResolved(p, "denied")) =>
              /\ alert' = IF p.source = "camera"
                          THEN "Camera Permission Required"
                          ELSE "Photo Library Permission Required"
              /\ state' = state
              /\ BagCardinality(picks') = BagCardinality(picks) - 1
              /\ \A q \in BagToSet(picks') :
                    q.pc = "picker" => CopiesIn(q, picks') = CopiesIn(q, picks)]_vars

\* the camera permission was denied: its alert is up, the step is still
\* idle and no acquisition is left
C12_Witness ==
    /\ platform = "native"
    /\ alert = "Camera Permission Required"
    /\ state.step = "idle"
    /\ picks = EmptyBag

\* C13: on the native platform a picker is launched only when both the
\* camera grant and the media-library grant have been obtained: every
\* acquisition whose picker is open asked for both permissions before it
\* launched, and both were granted.
C13_BothGrantsBeforePicker ==
    \A p \in InFlight :
        (platform = "native" /\ p.pc = "picker") =>
            {"camera", "library"} \subseteq requestedPermissions(p.source)

\* C14: whenever the file dialog opened by openCamera or openGallery is
\* dismissed without a file, the step of the component eventually returns to
\* idle: the component does not remain in picking with its buttons disabled.
C14_DismissedReturnsToIdle ==
    (fileDialog = "dismissed") ~> (uploadState.step = "idle")

\* C15: validateImage takes its checks in the order maximum byte size,
\* minimum byte size, MIME type, minimum sides, maximum sides: for every
\* size, type, width and height of a picture, the step after the validation
\* carries the message of the first of these checks that fails, and a
\* picture that fails none goes on to be read.
C15_FirstFailingCheckWins ==
    [][\A p \in processing : (p.file.decodable /\ validated(p)) =>
          LET f == p.file
              checks ==
                << << f.size > 5000000, "Image too large. Maximum size is 5MB." >>,
                   << f.size < 1000, "Image too small. Please upload a valid photo." >>,
                   << toLowerCase(f.type) \notin SUPPORTED_FORMATS,
                      "Unsupported format. Please use JPEG, PNG, or WebP." >>,
                   << f.width < 100 \/ f.height < 100,
                      "Image too small. Minimum size is 100x100 pixels." >>,
                   << f.width > 4000 \/ f.height > 4000,
                      "Image too large. Maximum size is 4000x4000 pixels." >> >>
              failing == { i \in 1..5 : checks[i][1] }
          IN  IF failing = {}
              THEN /\ uploadState' = uploadState
                   /\ [p EXCEPT !.pc = "reading"] \in processing'
              ELSE uploadState' =
                     Step("error", checks[CHOOSE i \in failing : \A j \in failing : i <= j][2])]_vars

\* a picture failing the third check has been validated
C15_Witness ==
    /\ uploadState = Step("error", "Unsupported format. Please use JPEG, PNG, or WebP.")
    /\ calls # <<>>
    /\ calls[Len(calls)].error = "Unsupported format. Please use JPEG, PNG, or WebP."

\* C16: when the validation of a file fails in processFile the step becomes
\* error with the message of the check, onError is called with the same
\* message and nothing else is called, the file is dropped (onImageSelected
\* is never called for it) and the preview is as it was.
C16_InvalidFileReported ==
    [][\A p \in processing : (validated(p) /\ ~validateImage(p.file).isValid) =>
          /\ uploadState' = Step("error", validateImage(p.file).error)
          /\ uploadState'.message # Undefined
          /\ calls' = Append(calls, Call("onError", uploadState'.message, NoRef))
          /\ \A q \in processing' : q.id # p.id
          /\ previewUri' = previewUri]_vars

\* a file that does not decode was turned away and reported
C16_Witness ==
    /\ uploadState = Step("error", "Invalid image file. Please try another photo.")
    /\ calls # <<>>
    /\ calls[Len(calls)] = Call("onError", "Invalid image file. Please try another photo.", NoRef)
    /\ processing = {}

\* C17 as stated: a file is turned away exactly when its byte size is above
\* 5,000,000 or below 1,000, its type is not a supported format, or a side
\* is below 100 or above 4000.
C17_RejectedExactlyOutOfRange ==
    [][\A p \in processing : validated(p) =>
          LET f == p.file IN
          (uploadState'.step = "error") <=>
              \/ f.size > 5000000 \/ f.size < 1000
              \/ toLowerCase(f.type) \notin SUPPORTED_FORMATS
              \/ f.decodable /\ (f.width < 100 \/ f.height < 100)
              \/ f.decodable /\ (f.width > 4000 \/ f.height > 4000)]_vars

\* C17: a file is turned away exactly when its byte size is above 5,000,000
\* or below 1,000, its type is not a supported format, it does not decode as
\* an image, or a side is below 100 or above 4000; a file of 5,000,000 or
\* 1,000 bytes with sides of 100 or 4000 is accepted and goes on to be read.
C17_RejectedOutOfRangeOrUndecodable ==
    [][\A p \in processing : validated(p) =>
          LET f == p.file
              rejected ==
                  \/ f.size > 5000000 \/ f.size < 1000
                  \/ toLowerCase(f.type) \notin SUPPORTED_FORMATS
                  \/ ~f.decodable
                  \/ f.width < 100 \/ f.height < 100
                  \/ f.width > 4000 \/ f.height > 4000
          IN  /\ rejected => uploadState'.step = "error" /\ (\A q \in processing' : q.id # p.id)
              /\ ~rejected => uploadState' = uploadState /\ [p EXCEPT !.pc = "reading"] \in processing']_vars

\* a file at the upper size limit with sides at both limits was accepted
C17_Witness ==
    \E p \in processing :
        /\ p.pc = "reading"
        /\ p.file.size = 5000000 /\ p.file.width = 4000 /\ p.file.height = 100

\* C18: at every moment at most one object URL made by the component is
\* unreleased, and none is once the component has unmounted.
C18_OneUnreleasedObjectUrl ==
    /\ objectUrls <= 1
    /\ ~mounted => objectUrls = 0

\* C19: once the component has unmounted, the completion of what was
\* outstanding (a validation, a read, a timer, a cancel event) sets no state.
C19_NoStateSetAfterUnmount ==
    [][~mounted => (uploadState' = uploadState /\ previewUri' = previewUri)]_vars

\* C20: when every precondition holds, onSubmit performs exactly one write.
\* Its name, city and description are the form's values trimmed, with every
\* run of blanks inside collapsed to one space: no blank at either end, no
\* blank but the space, no two spaces in a row, the same characters
\* otherwise, and one space for each run of blanks that stands between two
\* words. Its age is the integer the age field's numeral denotes, its three
\* counters are 0 and its approvalStatus is pending, whatever else the
\* screen holds.
C20_OneSanitizedWrite ==
    [][(onSubmit /\ submitOutcome(user, view.form, view.photoUrl) = "write") =>
          \E w \in writes' :
              LET NonBlank(c) == c \notin WhiteSpace
                  Sanitized(out, in) ==
                      /\ \A i \in 1..Len(out) : out[i] \in WhiteSpace => out[i] = " "
                      /\ out # <<>> => NonBlank(out[1]) /\ NonBlank(out[Len(out)])
                      /\ \A i \in 1..(Len(out) - 1) : ~(out[i] = " " /\ out[i + 1] = " ")
                      /\ SelectSeq(out, NonBlank) = SelectSeq(in, NonBlank)
                      /\ \A i \in 1..Len(SelectSeq(out, NonBlank)), j \in 1..Len(out), k \in 1..Len(in) :
                            ( /\ Len(SelectSeq(SubSeq(out, 1, j), NonBlank)) = i /\ NonBlank(out[j])
                              /\ Len(SelectSeq(SubSeq(in, 1, k), NonBlank)) = i /\ NonBlank(in[k])
                              /\ j < Len(out) /\ k < Len(in) )
                            => (out[j + 1] = " " <=> in[k + 1] \in WhiteSpace)
                  age == view.form.age
              IN  /\ w \notin writes
                  /\ writes' = writes \cup {w}
                  /\ issued' = issued + 1
                  /\ Sanitized(w.doc.name, view.form.name)
                  /\ Sanitized(w.doc.city, view.form.city)
                  /\ Sanitized(w.doc.description, view.form.description)
                  /\ w.doc.age = 10 * DigitVal(age[1]) + DigitVal(age[2])
                  /\ w.doc.greenFlags = 0 /\ w.doc.redFlags = 0 /\ w.doc.commentCount = 0
                  /\ w.doc.approvalStatus = "pending"
                  /\ w.doc.profileImageUrl = view.photoUrl
                  /\ w.doc.uploaderUserId = user.id]_vars

\* a write was made from a form whose name and city hold runs of blanks
C20_Witness ==
    \E w \in writes :
        /\ form.name = <<"a", " ", "\t", "a">>
        /\ w.doc.name = <<"a", " ", "a">>
        /\ w.doc.city = <<"L", "e", " ", "M", "a", "n", "s">>

\* C21: when the database write fails the upload state becomes error with
\* the store's message and the form, the stored photo URL and the preview
\* are as they were; once that state is rendered the submit control is
\* enabled and onSubmit passes every precondition, so a retry issues a write
\* of the same document with nothing entered or uploaded again.
C21_FailedWriteCanBeRetried ==
    [][/\ \A w \in writes : \A m \in WriteErrors :
             addDocSettled(w, [ok |-> FALSE, message |-> m]) =>
                /\ state' = [step |-> "error", message |-> m]
                /\ isSubmitting' = FALSE
                /\ docs' = docs
                /\ form' = form /\ photoUrl' = photoUrl /\ photoPreview' = photoPreview
       /\ (state.step = "error" /\ state.message \in WriteErrors /\ view = Snapshot) =>
             /\ ~view.disabled
             /\ submitOutcome(user, view.form, view.photoUrl) = "write"
       /\ (onSubmit /\ state.step = "error" /\ state.message \in WriteErrors) =>
             \E w \in writes' :
                /\ writes' = writes \cup {w} /\ w \notin writes
                /\ w.doc = Document(user, form, photoUrl)]_vars

\* the only write so far failed and the retry is in flight
C21_Witness ==
    /\ issued = 2
    /\ docs = {}
    /\ \E w \in writes : writes = {w} /\ w.n = 2
    /\ state = Step("uploading", "Creating profile...")

C23_ControlsEnabledAgain ==
    (mounted /\ ~props.disabled /\ (uploadState.step = "error" \/ fileDialog = "dismissed"))
        ~> (~mounted \/ uploadState.step \notin {"picking", "validating"})

\* C24: when the endpoint answers with a success status and the secure_url
\* https://res.cloudinary.com/df4tx4erp/image/upload/v1/x.jpg, the upload is
\* fulfilled with that URL carrying the one segment
\* q_auto,f_auto,fl_progressive,c_fill,g_auto,w_1080,dpr_auto directly after
\* upload; this is the value the screen stores and writes as ProfileImageURL
C24_ExampleSecureUrlTransformed ==
    ( /\ outcome.pc # "pending"
      /\ request.response.status \in 200..299
      /\ request.response.json
      /\ request.response.secure_url =
            JsString(<<"h", "t", "t", "p", "s", ":", "/", "/", "r", "e", "s",
                       ".", "c", "l", "o", "u", "d", "i", "n", "a", "r", "y",
                       ".", "c", "o", "m", "/", "d", "f", "4", "t", "x", "4",
                       "e", "r", "p", "/", "i", "m", "a", "g", "e", "/", "u",
                       "p", "l", "o", "a", "d", "/", "v", "1", "/", "x", ".",
                       "j", "p", "g">>) )
    => /\ outcome.pc = "fulfilled"
       /\ outcome.url =
            JsString(<<"h", "t", "t", "p", "s", ":", "/", "/", "r", "e", "s",
                       ".", "c", "l", "o", "u", "d", "i", "n", "a", "r", "y",
                       ".", "c", "o", "m", "/", "d", "f", "4", "t", "x", "4",
                       "e", "r", "p", "/", "i", "m", "a", "g", "e", "/", "u",
                       "p", "l", "o", "a", "d", "/", "q", "_", "a", "u", "t",
                       "o", ",", "f", "_", "a", "u", "t", "o", ",", "f", "l",
                       "_", "p", "r", "o", "g", "r", "e", "s", "s", "i", "v",
                       "e", ",", "c", "_", "f", "i", "l", "l", ",", "g", "_",
                       "a", "u", "t", "o", ",", "w", "_", "1", "0", "8", "0",
                       ",", "d", "p", "r", "_", "a", "u", "t", "o", "/", "v",
                       "1", "/", "x", ".", "j", "p", "g">>)

C24_Witness ==
    /\ outcome.pc = "fulfilled"
    /\ request.draft = "part_000"
    /\ request.response.status = 200
    /\ includes(outcome.url.s, <<"/", "u", "p", "l", "o", "a", "d", "/", "q",
                                 "_", "a", "u", "t", "o", ",", "f", "_", "a",
                                 "u", "t", "o", ",", "f", "l", "_", "p", "r",
                                 "o", "g", "r", "e", "s", "s", "i", "v", "e",
                                 ",", "c", "_", "f", "i", "l", "l", ",", "g",
                                 "_", "a", "u", "t", "o", ",", "w", "_", "1",
                                 "0", "8", "0", ",", "d", "p", "r", "_", "a",
                                 "u", "t", "o", "/", "v", "1", "/", "x", ".",
                                 "j", "p", "g">>)

\* C25: for a well-formed URL of the image host (one the URL parser leaves as
\* written) whose path has a segment upload, the call returns the same URL
\* with exactly one new path segment inserted directly after the first upload
\* segment, everything else kept, and the tokens of the new segment, joined
\* by commas, come in the order quality, format, progressive flag, crop,
\* gravity, width, height, dpr
C25_OneSegmentAfterUpload ==
    LET s == request.url.s
        u == URL(s)
        pathStart == Len(u.scheme) + 3 + Len(u.host)
        pathEnd == pathStart + Len(u.pathname)
        ends == {k \in (pathStart + 7)..pathEnd :
                    /\ SubSeq(s, k - 6, k) = <<"/", "u", "p", "l", "o", "a",
                                               "d">>
                    /\ k = pathEnd \/ s[k + 1] = "/"}
        k == CHOOSE i \in ends : \A j \in ends : i <= j
        out == outcome.value.s
        seg == SubSeq(out, k + 2, Len(out) - (Len(s) - k))
        prefixes == << <<"q", "_">>, <<"f", "_">>, <<"f", "l", "_">>, <<"c",
                                                                        "_">>, <<
                                                                                 "g",
                                                                                 "_">>, <<
                                                                                          "w",
                                                                                          "_">>,
                       <<"h", "_">>, <<"d", "p", "r", "_">> >>
        tokens == split(seg, ",")
        starts(t, i) == /\ Len(t) >= Len(prefixes[i])
                        /\ SubSeq(t, 1, Len(prefixes[i])) = prefixes[i]
        rank(t) == CHOOSE i \in 1..8 : starts(t, i)
    IN  ( /\ outcome.pc # "called"
          /\ u.valid /\ href(u) = s
          /\ includes(u.host, <<"c", "l", "o", "u", "d", "i", "n", "a", "r",
                                "y", ".", "c", "o", "m">>)
          /\ ends # {} )
        => /\ outcome.pc = "returned"
           /\ Len(out) > Len(s) + 1
           /\ out = SubSeq(s, 1, k) \o <<"/">> \o seg \o SubSeq(s, k + 1, Len(s))
           /\ seg # <<>> /\ \A i \in 1..Len(seg) : seg[i] # "/"
           /\ \A i \in 1..Len(tokens) : \E p \in 1..8 : starts(tokens[i], p)
           /\ \A i \in 1..(Len(tokens) - 1) : rank(tokens[i]) < rank(tokens[i + 1])

\* C26: no exception leaves transformCloudinaryUrl, and a string that does
\* not contain the image host's domain, that cannot be parsed as a URL, or
\* whose path has no segment equal to upload, is returned unchanged
C26_OtherInputsReturnedUnchanged ==
    LET s == request.url.s
        u == URL(s)
        rest == SubSeq(s, Len(u.scheme) + 3 + Len(u.host) + 1, Len(s))
        stop == IndexOfAny(rest, {"?", "#"}, 1)
        path == IF stop = 0 THEN rest ELSE SubSeq(rest, 1, stop - 1)
        segments == split(path, "/")
        noUpload == \A i \in 1..Len(segments) : segments[i] # <<"u", "p",
                                                                "l", "o",
                                                                "a", "d">>
    IN  /\ outcome.pc # "raised"
        /\ ( /\ outcome.pc # "called"
             /\ \/ ~includes(s, <<"c", "l", "o", "u", "d", "i", "n", "a",
                                  "r", "y", ".", "c", "o", "m">>)
                \/ ~u.valid
                \/ noUpload )
           => outcome = [pc |-> "returned", value |-> request.url]

C26_Witness ==
    /\ outcome.pc = "returned"
    /\ request.url.s = <<"r", "e", "s", ".", "c", "l", "o", "u", "d", "i",
                         "n", "a", "r", "y", ".", "c", "o", "m", "/", "d",
                         "/", "u", "p", "l", "o", "a", "d", "/", "x", ".",
                         "j", "p", "g">>
    /\ outcome.value = request.url
    /\ request.opts.width = JsNumber(640)

\* C27: in the segment a call has inserted, the quality and the format token
\* always appear (q_auto and f_auto when the option is absent, the given
\* value otherwise), fl_progressive appears exactly when progressive is
\* true, and the token of crop, gravity, width, height and dpr appears exactly
\* when the caller set the option, the number 0 included
C27_TokenPerSetOption ==
    LET parts == split(URL(outcome.value.s).pathname, "/")
        found == {i \in 1..Len(parts) : parts[i] = <<"u", "p", "l", "o", "a",
                                                     "d">>}
        first == CHOOSE i \in found : \A j \in found : i <= j
        tokens == {split(parts[first + 1], ",")[i] :
                      i \in 1..Len(split(parts[first + 1], ","))}
        opts == request.opts
        withPrefix(p) ==
            {t \in tokens : Len(t) >= Len(p) /\ SubSeq(t, 1, Len(p)) = p}
        given(v, p) == withPrefix(p) =
                          IF v = JsUndefined THEN {} ELSE {p \o template(v)}
    IN  (outcome.pc = "returned" /\ outcome.value # request.url)
        => /\ withPrefix(<<"q", "_">>) =
                 {IF opts.quality = JsUndefined THEN <<"q", "_", "a", "u",
                                                       "t", "o">>
                  ELSE <<"q", "_">> \o template(opts.quality)}
           /\ withPrefix(<<"f", "_">>) =
                 {IF opts.format = JsUndefined THEN <<"f", "_", "a", "u",
                                                      "t", "o">>
                  ELSE <<"f", "_">> \o template(opts.format)}
           /\ withPrefix(<<"f", "l", "_">>) =
                 IF opts.progressive = JsBoolean(TRUE)
                 THEN {<<"f", "l", "_", "p", "r", "o", "g", "r", "e", "s",
                         "s", "i", "v", "e">>} ELSE {}
           /\ given(opts.crop, <<"c", "_">>)
           /\ given(opts.gravity, <<"g", "_">>)
           /\ given(opts.width, <<"w", "_">>)
           /\ given(opts.height, <<"h", "_">>)
           /\ given(opts.dpr, <<"d", "p", "r", "_">>)

\* C28: when the endpoint answers with a status outside 200..299, the upload
\* is rejected, never fulfilled with a URL, and the message of its error
\* holds the status code and the error text the server sent (the body, or
\* the error message inside it)
C28_HttpFailureCarriesStatusAndText ==
    LET resp == request.response
    IN  (outcome.pc # "pending" /\ resp.status \notin 200..299)
        => /\ outcome.pc = "rejected"
           /\ outcome.url = JsUndefined
           /\ includes(outcome.message, NumberToString(resp.status))
           /\ \/ includes(outcome.message, resp.text)
              \/ /\ resp.error # JsUndefined
                 /\ includes(outcome.message, resp.error.s)

\* C29: when the endpoint answers with a success status and a body without
\* secure_url, the upload is rejected, never fulfilled, and the message of
\* its error is one that no answer with a failure status produces
C29_NoUrlFailureIsDistinct ==
    LET resp == request.response
        failures == {[b EXCEPT !.status = s] :
                        b \in ResponseBodies, s \in {400, 401, 500}}
    IN  ( /\ outcome.pc # "pending"
          /\ resp.status \in 200..299
          /\ resp.secure_url = JsUndefined )
        => /\ outcome.pc = "rejected"
           /\ outcome.url = JsUndefined
           /\ \A f \in failures :
                 uploadImageToCloudinary(request.draft, f).message
                    # outcome.message

C31_ExactlyOneNetworkCall ==
    ( /\ outcome.pc \in {"fulfilled", "rejected"}
      /\ request.input \in {"File", "Blob", "file-uri", "data-uri"} )
    => outcome.fetches = <<"POST">>

\* C31, amended: a call never issues the upload POST twice, so none again
\* after a failure; once settled it has issued the POST exactly once, except
\* that the part_000 draft reads a data: URI with a fetch of its own before
\* the POST and issues no POST when that read fails
C31_OnePostNoRetry ==
    LET posts == Len(SelectSeq(outcome.fetches, LAMBDA f : f = "POST"))
        reads == request.draft = "part_000" /\ request.input = "data-uri"
    IN  /\ posts <= 1
        /\ ( /\ outcome.pc \in {"fulfilled", "rejected"}
             /\ request.input \in {"File", "Blob", "file-uri", "data-uri"} )
           => /\ outcome.fetches =
                    IF ~reads THEN <<"POST">>
                    ELSE IF request.decodes THEN <<"data:", "POST">>
                    ELSE <<"data:">>
              /\ ~(reads /\ ~request.decodes) => posts = 1

C31_Witness ==
    /\ outcome.pc = "rejected"
    /\ request.input = "data-uri" /\ request.draft = "part_000"
    /\ request.decodes /\ request.response.status = 500
    /\ outcome.fetches = <<"data:", "POST">>

\* C32: an edit of one text field through onChange sets that field to the
\* value typed and leaves the other fields as they were; it clears that
\* field's error (the one the screen shows) and no other error, the photo
\* error included; the ProfileImageURL, the preview and the upload state are
\* unchanged
C32_EditTouchesOneField ==
    [][\A key \in FormKeys : \A value \in Inputs(key) :
          onChange(key, value) =>
             /\ form'[key] = value
             /\ \A k \in FormKeys \ {key} : form'[k] = form[k]
             /\ \A k \in ErrorKeys \ {key} : errors'[k] = errors[k]
             /\ errors'[key] \in {Undefined, errors[key]}
             /\ view.errors[key] # Undefined => errors'[key] = Undefined
             /\ photoUrl' = photoUrl /\ photoPreview' = photoPreview
             /\ state' = state]_vars

C32_Witness ==
    /\ form.city = <<"R", "o", "m", "e">>
    /\ errors.city = Undefined /\ view.errors.city # Undefined
    /\ errors.name # Undefined /\ errors.age # Undefined
    /\ errors.photo # Undefined
    /\ photoUrl = NoRef

\* ------------------------------------------------------------------- C33
\* the hidden inputs of one kind that are in the document
AttachedInputs(kind) ==
    BagCardinality([i \in {a \in BagToSet(inputs) : a.kind = kind /\ a.attached}
                       |-> CopiesIn(i, inputs)])

\* an input that has had its selection or cancellation is in the document
UsedInputAttached(kind) ==
    \E i \in BagToSet(inputs) : i.kind = kind /\ i.used /\ i.attached

\* C33: in WebPhotoUpload.tsx, whatever openCamera and openGallery calls,
\* selections, cancellations and unmount have happened, at most one camera
\* input and at most one gallery input are in the document, none is in the
\* document once the component has unmounted, and an input in the document
\* that has had its selection or cancellation is eventually taken out of it
C33_HiddenInputsBounded ==
    /\ [](/\ AttachedInputs("camera") <= 1
          /\ AttachedInputs("gallery") <= 1
          /\ ~mounted => AttachedInputs("camera") + AttachedInputs("gallery") = 0)
    /\ UsedInputAttached("camera") ~> ~UsedInputAttached("camera")
    /\ UsedInputAttached("gallery") ~> ~UsedInputAttached("gallery")

\* the camera input of a second invocation, opened after a first one was
\* cancelled, is in the document with its dialog open, while the gallery
\* input that delivered a file waits for its removal timer
C33_Witness ==
    /\ mounted
    /\ AttachedInputs("camera") = 1 /\ AttachedInputs("gallery") = 1
    /\ \E i \in BagToSet(inputs) :
          i.kind = "camera" /\ i.attached /\ i.ref /\ i.dialog /\ ~i.used
    /\ \E i \in BagToSet(inputs) :
          i.kind = "gallery" /\ i.attached /\ i.changed /\ i.removals > 0
    /\ selected > 0 /\ previewUri = NoRef /\ Len(calls) > 1

\* ------------------------------------------------------------------- C34
\* C34: whenever the screen shows a photo preview and no acquisition is in
\* progress, the stored ProfileImageURL is the URL the upload of the
\* previewed picture returned, so that a submit cannot write a document
\* whose profileImageUrl belongs to another picture than the one previewed
C34_StoredUrlOfPreviewedImage ==
    /\ ( /\ view = Snapshot
         /\ photoPreview # NoRef
         /\ picks = EmptyBag
         /\ photoUrl # NoRef )
       => photoUrl.of = photoPreview.of
    /\ \A w \in writes :
          ( /\ photoPreview # NoRef
            /\ picks = EmptyBag
            /\ issued = w.n
            /\ state = Step("uploading", "Creating profile...") )
          => w.doc.profileImageUrl.of = photoPreview.of

\* ------------------------------------------------------------------- C35
\* C35: once a write of this screen has succeeded no further write is
\* issued from it, so that a further onSubmit between the success and the
\* navigation away cannot create a second document. Stated for the web
\* screen, whose success alert offers no way to leave it
C35_NoWriteAfterSuccess ==
    [][( /\ platform = "web"
         /\ docs # {}
         /\ state = Step("success", "Profile created") )
       => issued' = issued]_vars

\* ------------------------------------------------------------------- C36
\* the upload state as a submission left it
SubmissionStatus ==
    \/ state = Step("uploading", "Creating profile...")
    \/ state = Step("success", "Profile created")
    \/ state.step = "error" /\ state.message \in WriteErrors

\* C36: once onSubmit has set the upload state to `uploading: Creating
\* profile...`, `success` or the error of a failed write, the completion of
\* a photo upload that was in flight leaves its step and message alone
C36_SubmissionStatusKept ==
    [][\A p \in InFlight : \A r \in UploadResults(p.img) :
          ( /\ SubmissionStatus
            /\ handlePickUploaded(p, r) \/ fileInputUploaded(p, r) )
          => state' = state]_vars

\* ------------------------------------------------------------------- C37
\* C37: the 2 s timer started after a successful selection only moves the
\* state from success to idle; when it fires after the state has become
\* picking, validating or error it leaves the step as it is
C37_TimerOnlyLeavesSuccess ==
    [][timerFired =>
          \/ uploadState.step = "success"
          \/ uploadState'.step = uploadState.step]_vars

\* ------------------------------------------------------------------- C38
\* C38: once the change event of a hidden input has delivered a file, the
\* blur and cancel handlers of that input do not set the state back to idle
\* while the file is being validated or after it ended in success or error
C38_BlurAfterSelectionKeepsState ==
    [][\A i \in BagToSet(inputs) :
          ( /\ i.changed
            /\ uploadState.step \in {"validating", "success", "error"}
            /\ blurTimerFired(i) )
          => uploadState'.step = uploadState.step]_vars

\* ------------------------------------------------------------------- C39
\* the calls processFile has made to its parent: clearImage reports an
\* empty picture through onImageSelected as well
ProcessFileCalls ==
    SelectSeq(calls, LAMBDA c : c # Call("onImageSelected", Undefined, NoRef))

\* C39: every file handed to processFile has exactly one of onImageSelected
\* and onError called for it, once, and the state leaves validating: when
\* no processFile call is in flight the calls made are as many as the files
\* delivered and the step is not validating, also after the file reader
\* delivered an empty result
C39_OneCallbackPerFile ==
    processing = {} =>
        /\ Len(ProcessFileCalls) = selected
        /\ uploadState.step # "validating"

====
